---- MODULE Spec2Model ----
(***************************************************************************)
(* A model of rce-infra: the control service (agent-svc) over its Postgres *)
(* tables nodes, node_commands and command_logs, and the edge agent's      *)
(* heartbeat / re-registration loop.                                       *)
(*                                                                         *)
(* Every SQL statement the store issues runs on the connection pool in     *)
(* autocommit mode (pool.Exec / pool.Query / pool.QueryRow, no             *)
(* transaction), so one statement is one atomic step and a handler that    *)
(* issues several statements is several steps that interleave with the     *)
(* steps of other requests.                                                *)
(***************************************************************************)
EXTENDS Bags, FiniteSets, Integers, Sequences, TLC

\* ------------------------------------------------------------------ bounds

\* INSERT attempts into node_commands (values drawn from its BIGSERIAL).
MaxSubmits == 2
\* Seconds the wall clock may advance.
MaxTime == 1
\* push_logs and update_status requests the service takes.
MaxRequests == 2
\* Requests to /v1/agents/register the service takes, the agent's first
\* registration included.
MaxRegistrations == 3
\* Heartbeats the agent sends.
MaxHeartbeats == 2

\* ------------------------------------------------------- program constants

\* LIMIT of the lease SELECT.
LeaseLimit == 5
\* Default limit of GET /v1/commands.
DefaultListLimit == 50
\* Largest limit GET /v1/commands accepts.
MaxListLimit == 100
\* Lifetime of a token in seconds.
JWTExpirationSec == 86400

\* ------------------------------------------------------------ value domains

\* The nil string (a NULL column, an absent filter).
Null == "NULL"
\* The nil of a row pointer (*models.Node, *models.NodeCommand).
NoRow == [nil |-> TRUE]
\* A nilable number or slice is a set of at most one value: Nil, or {v}.
Nil == {}

\* n1 and n2 are registered, n3 is registered and disabled, n4 is unknown.
PollingNodes == {"n1", "n2"}

\* Request slots: the requests the service is handling at one time.
Callers == {"t1", "t2"}

Terminal == {"success", "failed", "timeout"}
\* oneof of CommandStatusRequest.Status; "streaming" stands for every other
\* string: the binding validation rejects it.
StatusOneOf == {"queued", "running", "success", "failed", "timeout"}
\* The bodies of update_status requests: status, exit_code, error_msg.
StatusRequests ==
    { [status |-> "queued", exit_code |-> Nil, error_msg |-> ""],
      [status |-> "running", exit_code |-> Nil, error_msg |-> ""],
      [status |-> "success", exit_code |-> {0}, error_msg |-> ""],
      [status |-> "failed", exit_code |-> {1}, error_msg |-> "boom"],
      [status |-> "streaming", exit_code |-> Nil, error_msg |-> ""] }

\* A payload is the JSON object of the request, reduced to the fields the
\* registered schemas read; "" is an absent or empty field, and packages is
\* Nil when the key is absent (a nil slice after decoding).
Payload(cmd, version, url, packages, action) ==
    [cmd |-> cmd, version |-> version, url |-> url, packages |-> packages,
     action |-> action]
\* The bodies of submit requests: two the service takes (for n1 and n2), then
\* an unregistered type, a disabled node, an unknown node, a missing cmd, a
\* url that is none, an action outside the oneof.
SubmitRequests ==
    { [command_type |-> "RunCommand", node_id |-> "n1",
       payload |-> Payload("echo hi", "", "", Nil, "")],
      [command_type |-> "RunCommand", node_id |-> "n2",
       payload |-> Payload("echo hi", "", "", Nil, "")],
      [command_type |-> "Reboot", node_id |-> "n1",
       payload |-> Payload("echo hi", "", "", Nil, "")],
      [command_type |-> "RunCommand", node_id |-> "n3",
       payload |-> Payload("echo hi", "", "", Nil, "")],
      [command_type |-> "RunCommand", node_id |-> "n4",
       payload |-> Payload("echo hi", "", "", Nil, "")],
      [command_type |-> "RunCommand", node_id |-> "n1",
       payload |-> Payload("", "", "", Nil, "")],
      [command_type |-> "UpdateAgent", node_id |-> "n1",
       payload |-> Payload("", "1.2", "not a url", Nil, "")],
      [command_type |-> "UpdatePackage", node_id |-> "n1",
       payload |-> Payload("", "", "", {<<"vim">>}, "purge")] }

Streams == {"stdout", "stderr"}
\* The chunks of push_logs requests; the last three fail the validation
\* (stream, chunk_index, data).
ChunkInputs ==
    { [chunk_index |-> 0, stream |-> "stdout", data |-> "A", is_final |-> FALSE],
      [chunk_index |-> 0, stream |-> "stdout", data |-> "B", is_final |-> TRUE],
      [chunk_index |-> 0, stream |-> "stderr", data |-> "A", is_final |-> FALSE],
      [chunk_index |-> 1, stream |-> "stdout", data |-> "A", is_final |-> FALSE],
      [chunk_index |-> 0, stream |-> "stdin", data |-> "A", is_final |-> FALSE],
      [chunk_index |-> -1, stream |-> "stdout", data |-> "A", is_final |-> FALSE],
      [chunk_index |-> 0, stream |-> "stdout", data |-> "", is_final |-> FALSE] }
\* The chunks arrays of push_logs requests.
BatchInputs == {<<c>> : c \in ChunkInputs}
\* The command ids requests name; no command has the id 0.
CommandIdInputs == {0, 1, 2}

\* ------------------------------------------------------------------- state

VARIABLES
    now,            \* the wall clock, in seconds
    nodes,          \* table nodes: a set of rows
    node_commands,  \* table node_commands: a set of rows
    cmdSeq,         \* last value of node_commands' BIGSERIAL
    command_logs,   \* table command_logs: a bag of rows
    calls,          \* per request slot: the handler running in it
    reply,          \* the HTTP response the last step sent, or NoReply
    requests,       \* push_logs and update_status requests taken so far
    registrations,  \* register requests taken so far
    issued,         \* the tokens the register responses carried, in order
    dispatched,     \* bag of the command ids next responses have carried
    agent,          \* the edge agent: identity file, clients, heartbeat loop
    hbSent,         \* the last heartbeat request the agent sent, or NoReply
    net,            \* the network between the agent and the service
    run,            \* the agent process: the context of the execution, restarts
    proc,           \* the child process of the command and its stdout pipe
    chunker,        \* the executor.Chunker of the execution
    cmd_local,      \* table node_commands_local: the status of the command
    logs_local,     \* table command_logs_local: a set of rows
    gor             \* the agent's goroutines: where each is, what it holds

regVars == <<registrations, issued>>
agentVars == <<agent, hbSent>>
workerVars == <<net, run, proc, chunker, cmd_local, logs_local, gor>>
vars == <<now, nodes, node_commands, cmdSeq, command_logs, calls, reply,
          requests, dispatched, registrations, issued, agent, hbSent,
          net, run, proc, chunker, cmd_local, logs_local, gor>>

\* No response left the service in the last step.
NoReply == [op |-> "none", code |-> 0]
Idle == [op |-> "idle"]

\* ------------------------------------------------------------ bag helpers

RECURSIVE SumCopies(_, _)
SumCopies(S, B) ==
    IF S = {} THEN 0
    ELSE LET x == CHOOSE y \in S : TRUE
         IN  CopiesIn(x, B) + SumCopies(S \ {x}, B)

\* The bag of the rows f[x], x a row of B: what an UPDATE that rewrites row x
\* to f[x] leaves.
BagImage(B, f) ==
    LET S == BagToSet(B)
    IN  [y \in {f[x] : x \in S} |-> SumCopies({x \in S : f[x] = y}, B)]

\* The bag of the rows of B that are in the set Keep: what a DELETE of the
\* other rows leaves.
BagRestrict(B, Keep) == [x \in BagToSet(B) \cap Keep |-> B[x]]

\* SELECT count(*) over the rows of B that are in the set S.
BagCount(B, S) == SumCopies(BagToSet(B) \cap S, B)

\* ------------------------------------------------------------------ nodes

NodeRow(nodeID, attrs, lastSeen, disabled) ==
    [node_id |-> nodeID, attrs |-> attrs, last_seen_at |-> lastSeen,
     disabled |-> disabled]

\* Store.GetNode: the row, or NoRow (pgx.ErrNoRows).
GetNode(nodeID) ==
    IF \E n \in nodes : n.node_id = nodeID
    THEN CHOOSE n \in nodes : n.node_id = nodeID
    ELSE NoRow

\* --------------------------------------------------------------- commands

\* utils.ValidateCommandPayload: the type is registered and the payload
\* passes the validate tags of its schema.
IsURL(s) == s \in {"http://h/a"}
\* The validation that takes every type and payload.
ValidateAnyPayload(commandType, payload) == TRUE
ValidateCommandPayload(commandType, payload) ==
    CASE commandType = "RunCommand" -> payload.cmd # ""
      [] commandType = "UpdateAgent" -> payload.version # "" /\ IsURL(payload.url)
      [] commandType = "UpdatePackage" ->
            /\ payload.packages # Nil
            /\ payload.action \in {"install", "remove", "upgrade"}
      [] OTHER -> FALSE

\* Store.GetCommandByID: the row, or NoRow.
GetCommandByID(commandID) ==
    IF \E c \in node_commands : c.command_id = commandID
    THEN CHOOSE c \in node_commands : c.command_id = commandID
    ELSE NoRow

\* uuid.New(): a value no earlier call returned, or (with the probability of
\* a UUID collision) one a row already carries.
NewUUIDs == {cmdSeq + 1} \cup {c.command_id : c \in node_commands}

\* The INSERT of Store.CreateCommand.  The UNIQUE constraint on command_id
\* refuses a second row with the same command_id.
CreateCommandRow(commandID, nodeID, commandType, payload) ==
    [id |-> cmdSeq + 1, command_id |-> commandID, node_id |-> nodeID,
     command_type |-> commandType, payload |-> payload, status |-> "queued",
     created_at |-> now, updated_at |-> now,
     exit_code |-> Nil, error_msg |-> Null]

\* node_commands without the UNIQUE constraint on command_id.
CreateCommandNoUnique(commandID) == FALSE

CreateCommandViolatesUnique(commandID) ==
    \E c \in node_commands : c.command_id = commandID

\* Store.ListCommands: the rows (of nodeID, unless it is Null) newest first,
\* at most limit of them.  Rows with equal created_at come in either order.
RECURSIVE Orderings(_)
Orderings(S) ==
    IF S = {} THEN {<<>>}
    ELSE UNION { {<<x>> \o t : t \in Orderings(S \ {x})} : x \in S }

Prefix(s, n) == SubSeq(s, 1, IF Len(s) < n THEN Len(s) ELSE n)

ListCommands(nodeID, limit) ==
    LET rows == {c \in node_commands : nodeID = Null \/ c.node_id = nodeID}
        desc == {s \in Orderings(rows) :
                    \A i, j \in 1..Len(s) : i < j => s[i].created_at >= s[j].created_at}
    IN  {IF limit > 0 THEN Prefix(s, limit) ELSE s : s \in desc}

\* The SELECT of Store.GetNextCommand: the queued rows of nodeID, oldest
\* created_at first, at most LeaseLimit of them.  The statement takes no row
\* lock, and rows with equal created_at come in either order.
SelectQueued(nodeID) ==
    LET rows == {c \in node_commands : c.node_id = nodeID /\ c.status = "queued"}
        asc == {s \in Orderings(rows) :
                    \A i, j \in 1..Len(s) : i < j => s[i].created_at <= s[j].created_at}
    IN  {Prefix(s, LeaseLimit) : s \in asc}

SeqIds(s) == {s[i].command_id : i \in 1..Len(s)}

\* The UPDATE of Store.GetNextCommand: the rows it changes.
LeaseAffected(ids) ==
    {c \in node_commands : c.command_id \in ids /\ c.status = "queued"}

\* Store.GetNextCommand returning no row it leased.
LeaseResultNone(selected, affected) == <<>>

\* Store.GetNextCommand without the return of nil when the UPDATE changed no
\* row.
LeaseResultUnchecked(selected, affected) ==
    [i \in 1..Len(selected) |-> [selected[i] EXCEPT !.status = "running"]]

\* What Store.GetNextCommand returns after its UPDATE affected `affected`,
\* having selected `selected`: nothing if no row changed, else every row it
\* selected, each marked running.
LeaseResult(selected, affected) ==
    IF affected = {} THEN <<>>
    ELSE [i \in 1..Len(selected) |-> [selected[i] EXCEPT !.status = "running"]]

\* ------------------------------------------------------------------- logs

LogKey(r) == <<r.command_id, r.chunk_index, r.stream>>

LogRow(commandID, chunk) ==
    [command_id |-> commandID, chunk_index |-> chunk.chunk_index,
     stream |-> chunk.stream, data |-> chunk.data, encoding |-> "utf-8",
     is_final |-> chunk.is_final]

\* The INSERT without its ON CONFLICT clause, into a table without the
\* UNIQUE constraint.
InsertLogChunkNoConflict(logs, row) == logs (+) SetToBag({row})

\* The INSERT with DO UPDATE SET data = EXCLUDED.data, is_final = ... .
InsertLogChunkOverwrite(logs, row) ==
    LET S == BagToSet(logs)
    IN  IF \E x \in S : LogKey(x) = LogKey(row)
        THEN BagImage(logs, [x \in S |->
                 IF LogKey(x) = LogKey(row)
                 THEN [x EXCEPT !.is_final = row.is_final, !.data = row.data]
                 ELSE x])
        ELSE logs (+) SetToBag({row})

\* One statement of Store.InsertLogChunks:
\* INSERT ... ON CONFLICT (command_id, chunk_index, stream)
\*            DO UPDATE SET is_final = EXCLUDED.is_final.
InsertLogChunk(logs, row) ==
    LET S == BagToSet(logs)
    IN  IF \E x \in S : LogKey(x) = LogKey(row)
        THEN BagImage(logs, [x \in S |->
                 IF LogKey(x) = LogKey(row)
                 THEN [x EXCEPT !.is_final = row.is_final] ELSE x])
        ELSE logs (+) SetToBag({row})

\* Store.MarkAllChunksAsFinal.
MarkAllChunksAsFinal(logs, commandID) ==
    BagImage(logs, [x \in BagToSet(logs) |->
        IF x.command_id = commandID /\ x.is_final = FALSE
        THEN [x EXCEPT !.is_final = TRUE] ELSE x])

\* DELETE FROM command_logs WHERE command_id IN ids (also the ON DELETE
\* CASCADE of the foreign key).
DeleteLogsOf(logs, ids) ==
    BagRestrict(logs, {x \in BagToSet(logs) : x.command_id \notin ids})

\* ORDER BY chunk_index ASC, stream ASC ("stderr" sorts before "stdout").
StreamRank(stream) == IF stream = "stderr" THEN 0 ELSE 1
LogBefore(a, b) ==
    \/ a.chunk_index < b.chunk_index
    \/ a.chunk_index = b.chunk_index /\ StreamRank(a.stream) <= StreamRank(b.stream)

\* The rows of a bag, each as often as the bag holds it, tagged to tell the
\* copies apart.
BagRows(B) == UNION { {<<x, k>> : k \in 1..B[x]} : x \in BagToSet(B) }

\* The WHERE clause of Store.GetCommandLogs.
LogsFilter(row, commandID, afterChunkIndex) ==
    /\ row.command_id = commandID
    /\ \A k \in afterChunkIndex : row.chunk_index >= k

\* Store.GetCommandLogs followed by the handler's projection of each row to
\* (chunk_index, stream, data, is_final): the sequences the call may return.
GetCommandLogs(commandID, afterChunkIndex) ==
    LET rows == {p \in BagRows(command_logs) :
                    LogsFilter(p[1], commandID, afterChunkIndex)}
        asc == {s \in Orderings(rows) :
                    \A i, j \in 1..Len(s) : i < j => LogBefore(s[i][1], s[j][1])}
    IN  {[i \in 1..Len(s) |->
            [chunk_index |-> s[i][1].chunk_index, stream |-> s[i][1].stream,
             data |-> s[i][1].data, is_final |-> s[i][1].is_final]] : s \in asc}

\* ---------------------------------------------------------------- requests

IsIdle(t) == calls[t].op = "idle"
Finish(t) == calls' = [calls EXCEPT ![t] = Idle]

\* The clock advances.
Tick ==
    /\ now < MaxTime
    /\ now' = now + 1
    /\ reply' = NoReply
    /\ UNCHANGED <<nodes, node_commands, cmdSeq, command_logs, calls,
                   requests, dispatched, regVars, agentVars, workerVars>>

\* CommandHandler.SubmitCommand / CommandService.SubmitCommand /
\* Store.CreateCommand.  The node row is read and the command row inserted in
\* two statements; no handler changes or deletes a node row in between.
\* The response: 400, or 201 with the command_id.
SubmitReply(code, commandID) ==
    [op |-> "submit", code |-> code, command_id |-> commandID]

SubmitCommand(commandType, nodeID, payload) ==
    /\ UNCHANGED <<now, nodes, command_logs, calls, requests, dispatched,
                   regVars, agentVars, workerVars>>
    /\ IF \/ ~ValidateCommandPayload(commandType, payload)
          \/ GetNode(nodeID) = NoRow
          \/ GetNode(nodeID).disabled
       THEN /\ reply' = SubmitReply(400, 0)
            /\ UNCHANGED <<node_commands, cmdSeq>>
       ELSE /\ cmdSeq < MaxSubmits
            /\ \E commandID \in NewUUIDs :
                 /\ cmdSeq' = cmdSeq + 1
                 /\ IF CreateCommandViolatesUnique(commandID)
                    THEN /\ UNCHANGED node_commands
                         /\ reply' = SubmitReply(400, 0)
                    ELSE /\ node_commands' = node_commands \cup
                              {CreateCommandRow(commandID, nodeID, commandType, payload)}
                         /\ reply' = SubmitReply(201, commandID)

\* CommandHandler.GetNextCommand: the long poll starts; nodeID is the subject
\* of the bearer token.
NextBegin(t, nodeID) ==
    /\ IsIdle(t)
    /\ calls' = [calls EXCEPT ![t] = [op |-> "next", pc |-> "wait", node |-> nodeID]]
    /\ reply' = NoReply
    /\ UNCHANGED <<now, nodes, node_commands, cmdSeq, command_logs, requests,
                   dispatched, regVars, agentVars, workerVars>>

\* A tick of the poll: the SELECT of Store.GetNextCommand.  With no row the
\* store returns nil and the handler waits for the next tick.
NextSelect(t) ==
    /\ calls[t].op = "next" /\ calls[t].pc = "wait"
    /\ \E selected \in SelectQueued(calls[t].node) :
         calls' = [calls EXCEPT ![t] =
                     IF selected = <<>> THEN @
                     ELSE [op |-> "next", pc |-> "update", node |-> @.node,
                           commands |-> selected]]
    /\ reply' = NoReply
    /\ UNCHANGED <<now, nodes, node_commands, cmdSeq, command_logs, requests,
                   dispatched, regVars, agentVars, workerVars>>

\* The UPDATE of Store.GetNextCommand and its return.
NextUpdate(t) ==
    /\ calls[t].op = "next" /\ calls[t].pc = "update"
    /\ LET affected == LeaseAffected(SeqIds(calls[t].commands))
           result == LeaseResult(calls[t].commands, affected)
       IN  /\ node_commands' = (node_commands \ affected) \cup
                 {[c EXCEPT !.status = "running", !.updated_at = now] : c \in affected}
           /\ calls' = [calls EXCEPT ![t] =
                 IF result = <<>>
                 THEN [op |-> "next", pc |-> "wait", node |-> @.node]
                 ELSE [op |-> "next", pc |-> "respond", node |-> @.node,
                       commands |-> result]]
    /\ reply' = NoReply
    /\ UNCHANGED <<now, nodes, cmdSeq, command_logs, requests, dispatched,
                   regVars, agentVars, workerVars>>

\* The handler answers 200 with the commands the store returned.
NextReply(commands) ==
    [op |-> "next", code |-> 200,
     commands |-> [i \in 1..Len(commands) |-> commands[i].command_id]]

NextRespond(t) ==
    /\ calls[t].op = "next" /\ calls[t].pc = "respond"
    /\ reply' = NextReply(calls[t].commands)
    /\ dispatched' = dispatched (+) SetToBag(SeqIds(calls[t].commands))
    /\ Finish(t)
    /\ UNCHANGED <<now, nodes, node_commands, cmdSeq, command_logs, requests,
                   regVars, agentVars, workerVars>>

\* The poll's context is done (the wait elapsed, or the client went away):
\* 200 with no command.
NextTimeout(t) ==
    /\ calls[t].op = "next" /\ calls[t].pc = "wait"
    /\ reply' = NextReply(<<>>)
    /\ Finish(t)
    /\ UNCHANGED <<now, nodes, node_commands, cmdSeq, command_logs, requests,
                   dispatched, regVars, agentVars, workerVars>>

\* The client goes away while the poll is pending: the request context is
\* cancelled.  The handler blocked in its select answers 200 with no command,
\* unless a tick is due as well and the select takes it: then, as between the
\* two statements of Store.GetNextCommand, the statement run with the
\* cancelled context fails and the handler answers 500.
NextError == [op |-> "next", code |-> 500, commands |-> <<>>]
NextCancel(t) ==
    /\ calls[t].op = "next" /\ calls[t].pc \in {"wait", "update"}
    /\ \/ calls[t].pc = "wait" /\ reply' = NextReply(<<>>)
       \/ reply' = NextError
    /\ Finish(t)
    /\ UNCHANGED <<now, nodes, node_commands, cmdSeq, command_logs, requests,
                   dispatched, regVars, agentVars, workerVars>>

\* CommandHandler.UpdateCommandStatus / CommandService.UpdateCommandStatus up
\* to the ownership check: the binding validation, then the read of the
\* command row.  nodeID is the subject of the bearer token.
StatusReply(code) == [op |-> "status", code |-> code]
\* The 400 carries the error: of the binding validation, or the one
\* CommandService.UpdateCommandStatus returned.
StatusRefusal(error) == [op |-> "status", code |-> 400, error |-> error]
\* The checks without the one of the owner.
StatusErrorAnyNode(nodeID, commandID, req) ==
    IF req.status \notin StatusOneOf THEN "validation failed"
    ELSE IF GetCommandByID(commandID) = NoRow THEN "command not found"
    ELSE ""
StatusError(nodeID, commandID, req) ==
    IF req.status \notin StatusOneOf THEN "validation failed"
    ELSE IF GetCommandByID(commandID) = NoRow THEN "command not found"
    ELSE IF GetCommandByID(commandID).node_id # nodeID
         THEN "command does not belong to node"
    ELSE ""

StatusBegin(t, nodeID, commandID, req) ==
    /\ IsIdle(t)
    /\ requests < MaxRequests
    /\ requests' = requests + 1
    /\ IF StatusError(nodeID, commandID, req) # ""
       THEN /\ reply' = StatusRefusal(StatusError(nodeID, commandID, req))
            /\ UNCHANGED calls
       ELSE /\ reply' = NoReply
            /\ calls' = [calls EXCEPT ![t] =
                  [op |-> "status", pc |-> "update", node |-> nodeID,
                   command_id |-> commandID, status |-> req.status,
                   exit_code |-> req.exit_code,
                   error_msg |-> IF req.error_msg = "" THEN Null
                                 ELSE req.error_msg]]
    /\ UNCHANGED <<now, nodes, node_commands, cmdSeq, command_logs,
                   dispatched, regVars, agentVars, workerVars>>

\* The UPDATE of Store.UpdateCommandStatus: whatever the row's status is now.
SetCommandStatus(commands, commandID, status, exitCode, errorMsg) ==
    {IF c.command_id = commandID
     THEN [c EXCEPT !.status = status, !.exit_code = exitCode,
                    !.error_msg = errorMsg, !.updated_at = now]
     ELSE c : c \in commands}

StatusUpdate(t) ==
    /\ calls[t].op = "status" /\ calls[t].pc = "update"
    /\ node_commands' = SetCommandStatus(node_commands, calls[t].command_id,
                            calls[t].status, calls[t].exit_code, calls[t].error_msg)
    /\ IF calls[t].status \in Terminal
       THEN /\ calls' = [calls EXCEPT ![t].pc = "mark"]
            /\ reply' = NoReply
       ELSE /\ Finish(t)
            /\ reply' = StatusReply(200)
    /\ UNCHANGED <<now, nodes, cmdSeq, command_logs, requests, dispatched,
                   regVars, agentVars, workerVars>>

\* After a terminal status: Store.MarkAllChunksAsFinal, then 200.
StatusMark(t) ==
    /\ calls[t].op = "status" /\ calls[t].pc = "mark"
    /\ command_logs' = MarkAllChunksAsFinal(command_logs, calls[t].command_id)
    /\ reply' = StatusReply(200)
    /\ Finish(t)
    /\ UNCHANGED <<now, nodes, node_commands, cmdSeq, requests, dispatched,
                   regVars, agentVars, workerVars>>

\* LogService.PushCommandLogs before the inserts: the ownership check, the
\* forcing of is_final when the command read is finished, the validation of
\* every chunk.
IsFinished(cmd) == cmd.status \in Terminal
ChunkValid(chunk) ==
    /\ chunk.stream \in Streams
    /\ chunk.chunk_index >= 0
    /\ chunk.data # ""
\* The chunks as the request carried them.
ForceNothing(chunks, finished) == chunks
ForceFinal(chunks, finished) ==
    [i \in 1..Len(chunks) |->
        IF finished THEN [chunks[i] EXCEPT !.is_final = TRUE] ELSE chunks[i]]

\* The checks without the one of the owner.
PushErrorAnyNode(nodeID, commandID, chunks) ==
    IF GetCommandByID(commandID) = NoRow THEN "command not found"
    ELSE IF \E i \in 1..Len(chunks) : ~ChunkValid(chunks[i]) THEN "invalid chunk"
    ELSE ""

\* The checks with the validation of the first chunk only.
PushErrorFirstChunk(nodeID, commandID, chunks) ==
    IF GetCommandByID(commandID) = NoRow THEN "command not found"
    ELSE IF GetCommandByID(commandID).node_id # nodeID
         THEN "command does not belong to node"
    ELSE IF chunks # <<>> /\ ~ChunkValid(chunks[1]) THEN "invalid chunk"
    ELSE ""

\* The error LogService.PushCommandLogs returns before it inserts, "" if none.
PushError(nodeID, commandID, chunks) ==
    IF GetCommandByID(commandID) = NoRow THEN "command not found"
    ELSE IF GetCommandByID(commandID).node_id # nodeID
         THEN "command does not belong to node"
    ELSE IF \E i \in 1..Len(chunks) : ~ChunkValid(chunks[i]) THEN "invalid chunk"
    ELSE ""

\* The loop of Store.InsertLogChunks after a statement that returned its row
\* (RETURNING chunk_index): the index joins ackedChunkIndexes.
appendNothing(acked, chunkIndex) == acked
appendAcked(acked, chunkIndex) == Append(acked, chunkIndex)

\* The response: 400 with the error, or 201 with the acked chunk indexes.
PushReply(code, error, acked) ==
    [op |-> "push", code |-> code, error |-> error, acked |-> acked]

PushBegin(t, nodeID, commandID, chunks) ==
    /\ IsIdle(t)
    /\ requests < MaxRequests
    /\ requests' = requests + 1
    /\ IF PushError(nodeID, commandID, chunks) # ""
       THEN /\ reply' = PushReply(400, PushError(nodeID, commandID, chunks), <<>>)
            /\ UNCHANGED calls
       ELSE /\ reply' = NoReply
            /\ calls' = [calls EXCEPT ![t] =
                  [op |-> "push", pc |-> "insert", node |-> nodeID,
                   command_id |-> commandID,
                   chunks |-> ForceFinal(chunks, IsFinished(GetCommandByID(commandID))),
                   next |-> 1, acked |-> <<>>]]
    /\ UNCHANGED <<now, nodes, node_commands, cmdSeq, command_logs,
                   dispatched, regVars, agentVars, workerVars>>

\* One pass of the loop of Store.InsertLogChunks.  The foreign key refuses a
\* row whose command is gone; the handler answers 400 on any error and 201
\* with the acked indexes after the last chunk.
PushInsert(t) ==
    /\ calls[t].op = "push" /\ calls[t].pc = "insert"
    /\ LET c == calls[t]
           chunk == c.chunks[c.next]
           acked == appendAcked(c.acked, chunk.chunk_index)
       IN  IF GetCommandByID(c.command_id) = NoRow
           THEN /\ UNCHANGED command_logs
                /\ reply' = PushReply(400, "failed to insert log chunks", <<>>)
                /\ Finish(t)
           ELSE /\ command_logs' = InsertLogChunk(command_logs,
                                        LogRow(c.command_id, chunk))
                /\ IF c.next = Len(c.chunks)
                   THEN /\ reply' = PushReply(201, "", acked)
                        /\ Finish(t)
                   ELSE /\ reply' = NoReply
                        /\ calls' = [calls EXCEPT ![t].next = @ + 1,
                                                  ![t].acked = acked]
    /\ UNCHANGED <<now, nodes, node_commands, cmdSeq, requests, dispatched,
                   regVars, agentVars, workerVars>>

\* Store.DeleteQueuedCommands, first statement: the chunks of the queued
\* commands (of nodeID, unless it is Null) go.  purged records the rows the
\* statement deleted (the code discards the statement's result).
QueuedIds(nodeID) ==
    {c.command_id : c \in {d \in node_commands :
        d.status = "queued" /\ (nodeID = Null \/ d.node_id = nodeID)}}

DeleteBegin(t, nodeID) ==
    /\ IsIdle(t)
    /\ command_logs' = DeleteLogsOf(command_logs, QueuedIds(nodeID))
    /\ calls' = [calls EXCEPT ![t] =
          [op |-> "delete", pc |-> "commands", node |-> nodeID,
           purged |-> {x \in BagToSet(command_logs) :
                          x.command_id \in QueuedIds(nodeID)}]]
    /\ reply' = NoReply
    /\ UNCHANGED <<now, nodes, node_commands, cmdSeq, requests, dispatched,
                   regVars, agentVars, workerVars>>

\* Second statement: the queued commands go (their chunks with them, by the
\* cascade); 200 with the number of commands deleted.
DeleteCommands(t) ==
    /\ calls[t].op = "delete" /\ calls[t].pc = "commands"
    /\ LET ids == QueuedIds(calls[t].node)
       IN  /\ node_commands' = {c \in node_commands : c.command_id \notin ids}
           /\ command_logs' = DeleteLogsOf(command_logs, ids)
           /\ reply' = [op |-> "delete", code |-> 200,
                        deleted_count |-> Cardinality(ids)]
    /\ Finish(t)
    /\ UNCHANGED <<now, nodes, cmdSeq, requests, dispatched, regVars,
                   agentVars, workerVars>>

\* ------------------------------------------------- the command queue

NoAgent == [pc |-> "off"]

\* No command is executing on an agent.
WorkerOff ==
    /\ net = [up |-> TRUE, outages |-> 0]
    /\ run = [ctx |-> "none", killed |-> FALSE]
    /\ proc = [state |-> "none", out |-> <<>>, pos |-> 0]
    /\ chunker = [currentChunkIndex |-> 0, stdoutBuffer |-> "",
                  chunkChan |-> <<>>, closed |-> FALSE]
    /\ cmd_local = "none"
    /\ logs_local = {}
    /\ gor = <<>>

\* A running service: n1 and n2 registered, n3 registered and disabled by the
\* operator, no command submitted yet.
Init ==
    /\ now = 0
    /\ nodes = {NodeRow("n1", "a0", 0, FALSE), NodeRow("n2", "a0", 0, FALSE),
                NodeRow("n3", "a0", 0, TRUE)}
    /\ node_commands = {}
    /\ cmdSeq = 0
    /\ command_logs = EmptyBag
    /\ calls = [t \in Callers |-> Idle]
    /\ reply = NoReply
    /\ requests = 0
    /\ dispatched = EmptyBag
    /\ registrations = 0
    /\ issued = <<>>
    /\ agent = NoAgent
    /\ hbSent = NoReply
    /\ WorkerOff

\* Submissions and polls.
Next ==
    \/ Tick
    \/ \E r \in SubmitRequests :
          SubmitCommand(r.command_type, r.node_id, r.payload)
    \/ \E t \in Callers, n \in PollingNodes : NextBegin(t, n)
    \/ \E t \in Callers : NextSelect(t)
    \/ \E t \in Callers : NextUpdate(t)
    \/ \E t \in Callers : NextRespond(t)
    \/ \E t \in Callers : NextTimeout(t)
    \/ \E t \in Callers : NextCancel(t)

Spec == Init /\ [][Next]_vars

\* C1: no command_id is returned by two different next calls: every command
\* id has been carried by at most one next response.
NoDoubleDispatch ==
    \A c \in BagToSet(dispatched) : CopiesIn(c, dispatched) <= 1

\* C7: every successful submit adds exactly one row to node_commands: status
\* queued, a command_id no earlier row carries (the one the response names),
\* the submitted node_id, command_type and payload; and list_commands (for
\* that node and for all nodes) then shows the row.
SubmitAddsOneQueuedRow ==
    [][(reply'.op = "submit" /\ reply'.code = 201) =>
       \A r \in SubmitRequests :
          SubmitCommand(r.command_type, r.node_id, r.payload)
          => /\ node_commands \subseteq node_commands'
             /\ Cardinality(node_commands' \ node_commands) = 1
             /\ \A c \in node_commands' \ node_commands :
                   /\ c.command_id = reply'.command_id
                   /\ \A d \in node_commands : d.command_id # c.command_id
                   /\ c.status = "queued"
                   /\ c.node_id = r.node_id
                   /\ c.command_type = r.command_type
                   /\ c.payload = r.payload
                   /\ \A n \in {r.node_id, Null} :
                        \A l \in ListCommands(n, DefaultListLimit)' :
                           \E i \in 1..Len(l) : l[i] = c]_vars

\* A second submit has just been answered 201 and its row is queued.
SubmitAddsOneQueuedRowWitness ==
    /\ reply = SubmitReply(201, 2)
    /\ Cardinality(node_commands) = 2
    /\ \E c \in node_commands : c.command_id = 2 /\ c.status = "queued"

\* ------------------------------------------------- logs and statuses

\* The service after two submissions (command 1 for n1, command 2 for n2) and
\* a poll of n1 that took command 1.
RunEcho == Payload("echo hi", "", "", Nil, "")
InitLogs ==
    /\ now = 0
    /\ nodes = {NodeRow("n1", "a0", 0, FALSE), NodeRow("n2", "a0", 0, FALSE),
                NodeRow("n3", "a0", 0, TRUE)}
    /\ node_commands =
          {[id |-> 1, command_id |-> 1, node_id |-> "n1",
            command_type |-> "RunCommand", payload |-> RunEcho,
            status |-> "running", created_at |-> 0, updated_at |-> 0,
            exit_code |-> Nil, error_msg |-> Null],
           [id |-> 2, command_id |-> 2, node_id |-> "n2",
            command_type |-> "RunCommand", payload |-> RunEcho,
            status |-> "queued", created_at |-> 0, updated_at |-> 0,
            exit_code |-> Nil, error_msg |-> Null]}
    /\ cmdSeq = 2
    /\ command_logs = EmptyBag
    /\ calls = [t \in Callers |-> Idle]
    /\ reply = NoReply
    /\ requests = 0
    /\ dispatched = SetToBag({1})
    /\ registrations = 0
    /\ issued = <<>>
    /\ agent = NoAgent
    /\ hbSent = NoReply
    /\ WorkerOff

\* Log pushes, status updates and purges of the queue.
NextLogs ==
    \/ \E t \in Callers, n \in PollingNodes, c \in CommandIdInputs,
          r \in StatusRequests : StatusBegin(t, n, c, r)
    \/ \E t \in Callers : StatusUpdate(t)
    \/ \E t \in Callers : StatusMark(t)
    \/ \E t \in Callers, n \in PollingNodes, c \in CommandIdInputs,
          b \in BatchInputs : PushBegin(t, n, c, b)
    \/ \E t \in Callers : PushInsert(t)
    \/ \E t \in Callers, n \in PollingNodes \cup {Null} : DeleteBegin(t, n)
    \/ \E t \in Callers : DeleteCommands(t)

SpecLogs == InitLogs /\ [][NextLogs]_vars

\* The rows of command_logs with the key k, counted.
RowsWithKey(logs, k) == BagCount(logs, {x \in BagToSet(logs) : LogKey(x) = k})

\* C2: terminal states are absorbing: no step takes a command whose status is
\* success, failed or timeout to a non-terminal status.
TerminalAbsorbing ==
    [][\A c \in node_commands : \A d \in node_commands' :
          (c.command_id = d.command_id /\ c.status \in Terminal)
          => d.status \in Terminal]_vars

\* C3: whatever pushes ran, command_logs holds one row for the key a push
\* has just written, and never two rows for any key.
OneRowPerKey ==
    [][/\ \A x \in BagToSet(command_logs') :
            RowsWithKey(command_logs', LogKey(x)) = 1
       /\ \A t \in Callers :
            (PushInsert(t) /\ GetCommandByID(calls[t].command_id) # NoRow)
            => RowsWithKey(command_logs',
                  <<calls[t].command_id,
                    calls[t].chunks[calls[t].next].chunk_index,
                    calls[t].chunks[calls[t].next].stream>>) = 1]_vars

\* The same key has been pushed twice and both pushes were answered 201.
OneRowPerKeyWitness ==
    /\ requests = 2
    /\ reply = PushReply(201, "", <<0>>)
    /\ \A t \in Callers : IsIdle(t)
    /\ BagCardinality(command_logs) = 1

\* C4: once the is_final of a row is true it never becomes false again: a
\* row that is final is final after every step that leaves a row with its
\* key.
IsFinalNeverReverts ==
    [][\A x \in BagToSet(command_logs) : \A y \in BagToSet(command_logs') :
          (LogKey(x) = LogKey(y) /\ x.is_final) => y.is_final]_vars

\* C5: once an update_status call that set a terminal status is through,
\* every row of that command is final, in every later state.
FinalAfterTerminal ==
    \A c \in node_commands :
        (/\ c.status \in Terminal
         /\ \A t \in Callers :
               ~(calls[t].op = "status" /\ calls[t].command_id = c.command_id))
        => \A x \in BagToSet(command_logs) :
               x.command_id = c.command_id => x.is_final

\* The values of after_chunk_index the reads are made with.
AfterInputs == {0, 1}

\* C6: get_command_logs(id, K) returns exactly the stored rows of the command
\* whose chunk_index is strictly greater than K, in ascending
\* (chunk_index, stream) order.
LogsStrictlyAfter ==
    \A id \in CommandIdInputs, K \in AfterInputs :
        \A l \in GetCommandLogs(id, {K}) :
            /\ \A i \in 1..Len(l) : l[i].chunk_index > K
            /\ Len(l) = BagCount(command_logs,
                   {x \in BagToSet(command_logs) :
                       x.command_id = id /\ x.chunk_index > K})
            /\ \A i, j \in 1..Len(l) : i < j => LogBefore(l[i], l[j])

\* C8: a push by a node that does not own the command, or for a command that
\* does not exist, is answered 400, leaves command_logs as it is and leaves
\* nothing of the push to run: a step is a refusal that changes no row, or
\* it is no push of that kind.
RejectedPushStoresNothing ==
    [][\/ /\ reply'.op = "push" /\ reply'.code = 400
          /\ command_logs' = command_logs
          /\ calls' = calls
       \/ ~\E n \in PollingNodes, c \in CommandIdInputs :
             /\ \/ \A d \in node_commands : d.command_id # c
                \/ \E d \in node_commands : d.command_id = c /\ d.node_id # n
             /\ \E t \in Callers, b \in BatchInputs : PushBegin(t, n, c, b)]_vars

\* C21: an update_status by a node that does not own the command, or for a
\* command that does not exist, is answered 400 and leaves every command row
\* (status, exit_code, error_msg) and every chunk row (is_final) as it was,
\* with nothing of the call left to run.
RejectedStatusChangesNothing ==
    [][\/ /\ reply'.op = "status" /\ reply'.code = 400
          /\ node_commands' = node_commands
          /\ command_logs' = command_logs
          /\ calls' = calls
       \/ requests' = requests
       \/ ~\E n \in PollingNodes, c \in CommandIdInputs :
             /\ \/ GetCommandByID(c) = NoRow
                \/ GetCommandByID(c).node_id # n
             /\ \E t \in Callers, r \in StatusRequests :
                   StatusBegin(t, n, c, r)]_vars

\* n2 has just been refused a terminal status for command 1 of n1, which is
\* still running and has a stored chunk that is not final.
RejectedStatusChangesNothingWitness ==
    /\ reply = StatusRefusal("command does not belong to node")
    /\ \E c \in node_commands : c.command_id = 1 /\ c.status = "running"
    /\ \E x \in BagToSet(command_logs) : x.command_id = 1 /\ ~x.is_final

\* The commands delete_queued(nodeID) is to delete: the queued ones, of
\* nodeID when it is given.
ToPurge(nodeID) ==
    {c \in node_commands :
        c.status = "queued" /\ (nodeID = Null \/ c.node_id = nodeID)}

\* C22: a delete_queued call that completes has deleted exactly the queued
\* commands (of node_id when given) and answers their number; no chunk of a
\* deleted command is left; every command that is not queued is left as it
\* is, and so are its chunks: every chunk row the call deleted belonged to a
\* command that is deleted.
DeleteQueuedExact ==
    [][\A t \in Callers :
          DeleteCommands(t)
          => /\ node_commands' = node_commands \ ToPurge(calls[t].node)
             /\ reply'.deleted_count = Cardinality(ToPurge(calls[t].node))
             /\ \A x \in BagToSet(command_logs') :
                   \E c \in node_commands' : c.command_id = x.command_id
             /\ \A x \in BagToSet(command_logs) :
                   (\E c \in node_commands' : c.command_id = x.command_id)
                   => CopiesIn(x, command_logs') = CopiesIn(x, command_logs)
             /\ \A x \in calls[t].purged :
                   \A c \in node_commands' : c.command_id # x.command_id]_vars

\* n2 has just been refused a push for a command of n1, with rows of that
\* command stored.
RejectedPushStoresNothingWitness ==
    /\ reply = PushReply(400, "command does not belong to node", <<>>)
    /\ command_logs # EmptyBag

\* ------------------------------------- registration and the agent's heartbeat

\* The secret the service signs with, and another.
JWTSecret == "secret"

\* JWTService.GenerateToken without the IssuedAt and ExpiresAt claims.
GenerateTokenNoDates(nodeID) ==
    [node_id |-> nodeID, sub |-> nodeID, iss |-> "agent-svc",
     iat |-> 0, exp |-> JWTExpirationSec, sig |-> JWTSecret]

\* JWTService.GenerateToken: the claims (the dates in whole seconds) and the
\* HS256 signature, which the claims and the secret determine.
GenerateToken(nodeID) ==
    [node_id |-> nodeID, sub |-> nodeID, iss |-> "agent-svc",
     iat |-> now, exp |-> now + JWTExpirationSec, sig |-> JWTSecret]

\* JWTService.ValidateToken: the node id of the claims, "" for the error.
ValidateToken(token) ==
    IF token.sig = JWTSecret /\ now <= token.exp THEN token.node_id ELSE ""

\* Store.RegisterNode: INSERT ... ON CONFLICT (node_id) DO UPDATE SET attrs,
\* last_seen_at.
RegisterNode(rows, nodeID, attrs) ==
    IF \E n \in rows : n.node_id = nodeID
    THEN {IF n.node_id = nodeID
          THEN [n EXCEPT !.attrs = attrs, !.last_seen_at = now]
          ELSE n : n \in rows}
    ELSE rows \cup {NodeRow(nodeID, attrs, now, FALSE)}

\* Store.UpdateNodeLastSeen.
UpdateNodeLastSeen(rows, nodeID) ==
    {IF n.node_id = nodeID THEN [n EXCEPT !.last_seen_at = now] ELSE n : n \in rows}

\* The bodies of register requests of other clients; "" is a missing node_id.
RegisterRequests ==
    { [node_id |-> "n1", attrs |-> "a1"],
      [node_id |-> "n2", attrs |-> "a0"],
      [node_id |-> "", attrs |-> "a0"] }

\* The node id the agent generated when it first registered, and its attrs.
BootNodeId == "n1"
BootAttrs == "a0"

\* Errors of AgentClient.Heartbeat: an HTTPError with the status code, or the
\* error of a request that got no response.
HTTPError(code) == [kind |-> "http", code |-> code, text |-> ""]
RequestFailed == [kind |-> "net", code |-> 0, text |-> "request failed: timeout"]

\* isNodeNotFoundError; the fallback reads the text of an error that is no
\* HTTPError.
isNodeNotFoundError(err) ==
    IF err.kind = "http" THEN err.code = 404
    ELSE err.text \in {"404", "not found"}

\* The body RegistrationService.Register sends: a node id it generates.
RegisterNewNode(ident) == [node_id |-> "n9", attrs |-> ident.attrs]

\* The body RegistrationService.ReRegister sends: the identity's node id and
\* metadata.
ReRegisterRequest(ident) == [node_id |-> ident.node_id, attrs |-> ident.attrs]

\* AgentHandler.Register up to Store.RegisterNode, for a request of `from`.
RegisterTake(t, nodeID, attrs, from) ==
    /\ IsIdle(t)
    /\ registrations < MaxRegistrations
    /\ registrations' = registrations + 1
    /\ IF nodeID = ""
       THEN /\ reply' = [op |-> "register", code |-> 400]
            /\ UNCHANGED <<nodes, calls>>
       ELSE /\ nodes' = RegisterNode(nodes, nodeID, attrs)
            /\ reply' = NoReply
            /\ calls' = [calls EXCEPT ![t] =
                  [op |-> "register", pc |-> "token", node_id |-> nodeID,
                   attrs |-> attrs, from |-> from]]
    /\ UNCHANGED <<now, node_commands, cmdSeq, command_logs, requests,
                   dispatched, issued, hbSent, workerVars>>

\* A register request of another client.
RegisterBegin(t, nodeID, attrs) ==
    /\ RegisterTake(t, nodeID, attrs, "other")
    /\ UNCHANGED agent

\* AgentHandler.Register from JWTService.GenerateToken on: 200 with the token.
\* The agent waiting for it goes on to save it.
RegisterRespond(t) ==
    /\ calls[t].op = "register" /\ calls[t].pc = "token"
    /\ LET token == GenerateToken(calls[t].node_id)
       IN  /\ reply' = [op |-> "register", code |-> 200, token |-> token,
                        node_id |-> calls[t].node_id,
                        expires_in |-> JWTExpirationSec]
           /\ issued' = Append(issued, [node_id |-> calls[t].node_id,
                                        token |-> token, at |-> now])
           /\ agent' = IF calls[t].from = "agent"
                       THEN [agent EXCEPT !.pc = "save", !.pending = token]
                       ELSE agent
    /\ Finish(t)
    /\ UNCHANGED <<now, nodes, node_commands, cmdSeq, command_logs, requests,
                   dispatched, registrations, hbSent, workerVars>>

\* HeartbeatService.sendHeartbeat: the request AgentClient.Heartbeat sends,
\* with the node id of the service and the token of the agent client.
SendHeartbeat ==
    /\ agent.pc = "idle"
    /\ agent.heartbeats < MaxHeartbeats
    /\ hbSent' = [op |-> "heartbeat", node_id |-> agent.nodeID,
                  token |-> agent.clientToken]
    /\ agent' = [agent EXCEPT !.pc = "sent", !.heartbeats = @ + 1]
    /\ reply' = NoReply
    /\ UNCHANGED <<now, nodes, node_commands, cmdSeq, command_logs, calls,
                   requests, dispatched, regVars, workerVars>>

\* What sendHeartbeat does with the outcome of the request: nothing after a
\* success, a re-registration after a node-not-found error, a log line after
\* any other error.
AfterHeartbeat(err) ==
    IF err # NoRow /\ isNodeNotFoundError(err) THEN "reregister" ELSE "idle"

\* AgentHandler.Heartbeat: 404 when the node has no row, else the row's
\* last_seen_at is set and the answer is 200.
Heartbeat ==
    /\ agent.pc = "sent"
    /\ IF GetNode(hbSent.node_id) = NoRow
       THEN /\ reply' = [op |-> "heartbeat", code |-> 404]
            /\ agent' = [agent EXCEPT !.pc = AfterHeartbeat(HTTPError(404))]
            /\ UNCHANGED nodes
       ELSE /\ nodes' = UpdateNodeLastSeen(nodes, hbSent.node_id)
            /\ reply' = [op |-> "heartbeat", code |-> 200]
            /\ agent' = [agent EXCEPT !.pc = AfterHeartbeat(NoRow)]
    /\ UNCHANGED <<now, node_commands, cmdSeq, command_logs, calls, requests,
                   dispatched, regVars, hbSent, workerVars>>

\* The heartbeat gets no response.
HeartbeatFails ==
    /\ agent.pc = "sent"
    /\ agent' = [agent EXCEPT !.pc = AfterHeartbeat(RequestFailed)]
    /\ reply' = NoReply
    /\ UNCHANGED <<now, nodes, node_commands, cmdSeq, command_logs, calls,
                   requests, dispatched, regVars, hbSent, workerVars>>

\* POST /v1/agents/heartbeat by any caller: the Authorization header it
\* carries (none, or a token the service issued at second 0) and the node_id of its body.
\* setupRoutes puts no middleware before the handler and the handler does not
\* read the header: 400 without node_id, 404 when the node has no row, else
\* the row's last_seen_at is set and the answer is 200.
NoBearer == [node_id |-> "", sig |-> "", exp |-> 0]
Bearers ==
    {NoBearer} \cup
    {[node_id |-> n, sub |-> n, iss |-> "agent-svc", iat |-> 0,
      exp |-> JWTExpirationSec, sig |-> JWTSecret] : n \in {"n1", "n2"}}
HeartbeatNodes == {"n1", "n2", ""}
\* CommandHandler.getNodeIDFromToken: the subject of a valid bearer token,
\* "" without one.
getNodeIDFromToken(bearer) ==
    IF bearer = NoBearer THEN "" ELSE ValidateToken(bearer)
HeartbeatRequest(bearer, nodeID) ==
    /\ requests < MaxRequests
    /\ requests' = requests + 1
    /\ IF nodeID = ""
       THEN /\ reply' = [op |-> "heartbeat", code |-> 400]
            /\ UNCHANGED nodes
       ELSE IF GetNode(nodeID) = NoRow
       THEN /\ reply' = [op |-> "heartbeat", code |-> 404]
            /\ UNCHANGED nodes
       ELSE /\ nodes' = UpdateNodeLastSeen(nodes, nodeID)
            /\ reply' = [op |-> "heartbeat", code |-> 200]
    /\ UNCHANGED <<now, node_commands, cmdSeq, command_logs, calls,
                   dispatched, regVars, agentVars, workerVars>>

\* RegistrationService.ReRegister up to the request: the identity is loaded
\* and the register request sent with a client that has no token; the
\* service takes it.
ReRegisterBegin(t) ==
    /\ agent.pc = "reregister"
    /\ agent.identity # NoRow
    /\ RegisterTake(t, ReRegisterRequest(agent.identity).node_id,
                    ReRegisterRequest(agent.identity).attrs, "agent")
    /\ agent' = [agent EXCEPT !.pc = "registering"]

\* The register request gets no response (the service may go on with it), or
\* the service takes no more requests: ReRegister returns the error and
\* reRegister changes nothing.
ReRegisterFails ==
    /\ agent.pc \in {"reregister", "registering"}
    /\ agent' = [agent EXCEPT !.pc = "idle"]
    /\ calls' = [t \in Callers |->
                   IF calls[t].op = "register" /\ calls[t].from = "agent"
                   THEN [calls[t] EXCEPT !.from = "gone"] ELSE calls[t]]
    /\ reply' = NoReply
    /\ UNCHANGED <<now, nodes, node_commands, cmdSeq, command_logs, requests,
                   dispatched, regVars, hbSent, workerVars>>

\* HTTPClient.UpdateToken.
UpdateToken(client, token) == token

\* The rest of ReRegister and of reRegister: the token goes into the identity
\* and the identity is saved; when that worked, both clients get the token
\* and the service the identity's node id.  saved is whether Manager.Save
\* worked.
ReRegisterEnd(saved) ==
    /\ agent.pc = "save"
    /\ agent' = IF saved
                THEN [agent EXCEPT
                        !.pc = "idle",
                        !.identity = [@ EXCEPT !.token = agent.pending],
                        !.httpToken = UpdateToken(@, agent.pending),
                        !.clientToken = UpdateToken(@, agent.pending),
                        !.nodeID = agent.identity.node_id,
                        !.reregistered = TRUE]
                ELSE [agent EXCEPT !.pc = "idle"]
    /\ reply' = NoReply
    /\ UNCHANGED <<now, nodes, node_commands, cmdSeq, command_logs, calls,
                   requests, dispatched, regVars, hbSent, workerVars>>

\* clear-databases.sh: the operator truncates every table and resets the
\* sequences.
ClearDatabases ==
    /\ nodes' = {}
    /\ node_commands' = {}
    /\ command_logs' = EmptyBag
    /\ cmdSeq' = 0
    /\ reply' = NoReply
    /\ UNCHANGED <<now, calls, requests, dispatched, regVars, agentVars, workerVars>>

\* The agent after its first registration (at second 0, with the node id it
\* generated) and its start: identity saved, both clients built with the
\* identity's token, no heartbeat sent yet.
BootToken ==
    [node_id |-> BootNodeId, sub |-> BootNodeId, iss |-> "agent-svc",
     iat |-> 0, exp |-> JWTExpirationSec, sig |-> JWTSecret]

InitAgent ==
    /\ now = 0
    /\ nodes = {NodeRow(BootNodeId, BootAttrs, 0, FALSE)}
    /\ node_commands = {}
    /\ cmdSeq = 0
    /\ command_logs = EmptyBag
    /\ calls = [t \in Callers |-> Idle]
    /\ reply = NoReply
    /\ requests = 0
    /\ dispatched = EmptyBag
    /\ registrations = 1
    /\ issued = <<[node_id |-> BootNodeId, token |-> BootToken, at |-> 0]>>
    /\ agent = [pc |-> "idle", nodeID |-> BootNodeId,
                identity |-> [node_id |-> BootNodeId, token |-> BootToken,
                              attrs |-> BootAttrs],
                httpToken |-> BootToken, clientToken |-> BootToken,
                pending |-> BootToken, heartbeats |-> 0,
                reregistered |-> FALSE]
    /\ hbSent = NoReply
    /\ WorkerOff

\* Registrations, the agent's heartbeats and re-registrations, the operator.
NextAgent ==
    \/ Tick
    \/ \E t \in Callers, r \in RegisterRequests :
          RegisterBegin(t, r.node_id, r.attrs)
    \/ \E t \in Callers : RegisterRespond(t)
    \/ SendHeartbeat
    \/ Heartbeat
    \/ HeartbeatFails
    \/ \E t \in Callers : ReRegisterBegin(t)
    \/ ReRegisterFails
    \/ \E saved \in BOOLEAN : ReRegisterEnd(saved)
    \/ ClearDatabases
    \/ \E b \in Bearers, n \in HeartbeatNodes : HeartbeatRequest(b, n)

SpecAgent == InitAgent /\ [][NextAgent]_vars

\* Every token a register response carried is valid and names the node it
\* was issued for.
IssuedTokensValid ==
    \A i \in 1..Len(issued) : ValidateToken(issued[i].token) = issued[i].node_id

\* A step in which the service takes a register request leaves one row for
\* the request's node_id, with the request's attrs and the time of the step.
RegisteredRowIsLatest ==
    \A t \in Callers :
        (calls[t].op = "idle" /\ calls'[t].op = "register")
        => /\ Cardinality({n \in nodes' : n.node_id = calls'[t].node_id}) = 1
           /\ \A n \in nodes' :
                 n.node_id = calls'[t].node_id
                 => n.attrs = calls'[t].attrs /\ n.last_seen_at = now

\* C9 as the spec states it: any two registrations of the same node_id are
\* answered with distinct valid tokens, and leave a single row for the
\* node_id with the attrs and last_seen_at of the latest.
RegisterTwiceDistinct ==
    [][/\ \A i, j \in 1..Len(issued') :
            (i < j /\ issued'[i].node_id = issued'[j].node_id)
            => issued'[i].token # issued'[j].token
       /\ IssuedTokensValid'
       /\ RegisteredRowIsLatest]_vars

\* C9, amended: any two registrations of the same node_id are answered with
\* valid tokens, distinct when they were issued in different seconds, and
\* leave a single row for the node_id with the attrs and last_seen_at of the
\* latest.
RegisterTwice ==
    [][/\ \A i, j \in 1..Len(issued') :
            (/\ i < j
             /\ issued'[i].node_id = issued'[j].node_id
             /\ issued'[i].at # issued'[j].at)
            => issued'[i].token # issued'[j].token
       /\ IssuedTokensValid'
       /\ RegisteredRowIsLatest]_vars

\* n1 has been registered a second time, a second after the first, with
\* other attrs: two tokens, one row.
RegisterTwiceWitness ==
    /\ reply.op = "register" /\ reply.code = 200 /\ reply.node_id = "n1"
    /\ reply.token # BootToken
    /\ Len(issued) = 2
    /\ issued[1].node_id = "n1" /\ issued[2].node_id = "n1"
    /\ issued[2].token = reply.token
    /\ nodes = {NodeRow("n1", "a1", 1, FALSE)}

MaxOutages == 1

\* CHUNK_SIZE of the agent's configuration, in bytes.
ChunkSize == 3
\* The capacity of Chunker.chunkChan.
ChunkChanCap == 100
\* maxRetries of the RetryWithBackoff call in UploadChunksForCommand.
RetryAttempts == 5

LF == "\n"
CR == "\r"

\* string(buffer): the bytes as a string.
RECURSIVE Str(_)
Str(bytes) == IF bytes = <<>> THEN "" ELSE Head(bytes) \o Str(Tail(bytes))

\* The command the agent executes, the node it runs on, what it writes.
WorkerCommand == 1
WorkerNode == "n1"
WorkerOutput == <<"c", LF>>

\* The split function of bufio.NewScanner (bufio.ScanLines) on the bytes not
\* yet consumed: how far it advances and the token it returns, a line without
\* its end-of-line marker (LF, or CR LF); advance 0 asks for more data.
FirstLF(data) ==
    IF \E i \in 1..Len(data) : data[i] = LF
    THEN CHOOSE i \in 1..Len(data) :
            data[i] = LF /\ \A j \in 1..(i - 1) : data[j] # LF
    ELSE 0
dropCR(data) ==
    IF Len(data) > 0 /\ data[Len(data)] = CR
    THEN SubSeq(data, 1, Len(data) - 1) ELSE data
ScanLines(data, atEOF) ==
    IF FirstLF(data) > 0
    THEN [advance |-> FirstLF(data),
          token |-> dropCR(SubSeq(data, 1, FirstLF(data) - 1))]
    ELSE IF atEOF /\ data # <<>>
         THEN [advance |-> Len(data), token |-> dropCR(data)]
    ELSE [advance |-> 0, token |-> <<>>]

\* The bytes of the pipe the scanner has not consumed, and whether the pipe
\* is at its end (the child has exited).
Unread == SubSeq(proc.out, proc.pos + 1, Len(proc.out))
AtEOF == proc.state = "exited"

\* executor.Chunk.
Chunk(chunkIndex, stream, data, isFinal) ==
    [chunk_index |-> chunkIndex, stream |-> stream, data |-> data,
     is_final |-> isFinal]
NoChunk == [chunk_index |-> -1]

\* Chunker.appendToBuffer before its size check: the line and a newline go
\* to the buffer of stdout.
appendToBuffer(c, line) ==
    [c EXCEPT !.stdoutBuffer = @ \o Str(line) \o LF]

\* Chunker.flushStream and Chunker.flushStreamFinal for stdout: nothing with
\* an empty buffer; else the buffer becomes a chunk with the current index,
\* which goes to chunkChan unless the channel is full.
flushStream(c, isFinal) ==
    IF c.stdoutBuffer = "" THEN c
    ELSE [c EXCEPT
            !.stdoutBuffer = "",
            !.currentChunkIndex = @ + 1,
            !.chunkChan =
                IF Len(@) < ChunkChanCap
                THEN Append(@, Chunk(c.currentChunkIndex, "stdout",
                                     c.stdoutBuffer, isFinal))
                ELSE @]
\* A flush that sends on chunkChan after FinalFlush closed it panics.
FlushPanics(c) == c.closed /\ c.stdoutBuffer # ""

\* Store.SaveLogChunk of the agent: INSERT ... 'pending' ON CONFLICT
\* (command_id, chunk_index, stream) DO NOTHING.
SaveLogChunk(rows, commandID, chunk) ==
    IF \E r \in rows : /\ r.command_id = commandID
                       /\ r.chunk_index = chunk.chunk_index
                       /\ r.stream = chunk.stream
    THEN rows
    ELSE rows \cup {[command_id |-> commandID, chunk_index |-> chunk.chunk_index,
                     stream |-> chunk.stream, data |-> chunk.data,
                     status |-> "pending", retries |-> 0]}

\* Store.GetPendingChunks: the pending rows of the command, ORDER BY
\* chunk_index ASC, stream ASC.
GetPendingChunks(rows, commandID) ==
    LET pending == {r \in rows : r.command_id = commandID /\ r.status = "pending"}
    IN  CHOOSE s \in Orderings(pending) :
            \A i, j \in 1..Len(s) : i < j => LogBefore(s[i], s[j])

\* The UPDATE that marks no row.
MarkNoChunkAcked(rows, commandID, chunkIndexes) == rows

\* Store.MarkChunksAcked and Store.IncrementChunkRetries: UPDATE ... WHERE
\* command_id = ? AND chunk_index IN (...).
MarkChunksAcked(rows, commandID, chunkIndexes) ==
    {IF r.command_id = commandID /\ r.chunk_index \in chunkIndexes
     THEN [r EXCEPT !.status = "acked"] ELSE r : r \in rows}
IncrementChunkRetries(rows, commandID, chunkIndexes) ==
    {IF r.command_id = commandID /\ r.chunk_index \in chunkIndexes
     THEN [r EXCEPT !.retries = @ + 1] ELSE r : r \in rows}

\* The drain that sends every pending chunk as final.
chunkMapsAllFinal(chunks, isFinal) ==
    [i \in 1..Len(chunks) |->
        Chunk(chunks[i].chunk_index, chunks[i].stream, chunks[i].data, TRUE)]
\* The chunks array UploadChunksForCommand sends for the pending rows.
chunkMaps(chunks, isFinal) ==
    [i \in 1..Len(chunks) |->
        Chunk(chunks[i].chunk_index, chunks[i].stream, chunks[i].data, isFinal)]
\* The elements of a sequence.
Range(s) == {s[i] : i \in 1..Len(s)}

\* What no step of the agent or of a request it sent changes.
restVars == <<now, nodes, cmdSeq, calls, requests, dispatched, regVars, agentVars>>

\* A goroutine: where it is, the request it waits for, the chunk it handles,
\* the batch it uploads and the attempt of RetryWithBackoff it is in.
NoReq == [op |-> "none"]
Goroutine(pc) ==
    [pc |-> pc, req |-> NoReq, chunk |-> NoChunk, batch |-> <<>>, attempt |-> 0]
\* The goroutines that send requests: the worker in executeRunCommand, the
\* consumer of chunkChan it starts, ChunkStorageRetryService.Start.
Senders == {"main", "consumer", "retry"}

\* The child process ends by itself.
ProcExit ==
    /\ proc.state = "running"
    /\ proc' = [proc EXCEPT !.state = "exited"]
    /\ reply' = NoReply
    /\ UNCHANGED <<node_commands, command_logs, restVars, net, run, chunker,
                   cmd_local, logs_local, gor>>

\* The deadline of execCtx (timeout_sec) passes: exec.CommandContext kills a
\* child that is still running.
Deadline ==
    /\ run.ctx = "live"
    /\ run' = [ctx |-> "deadline", killed |-> proc.state = "running"]
    /\ proc' = [proc EXCEPT !.state = "exited"]
    /\ reply' = NoReply
    /\ UNCHANGED <<node_commands, command_logs, restVars, net, chunker,
                   cmd_local, logs_local, gor>>

\* A panic ends the agent process: every goroutine stops; the requests the
\* service has taken go on there.
Panic == [g \in DOMAIN gor |-> [gor[g] EXCEPT !.pc = "dead"]]

\* What a flush by the reader or the ticker leaves: the chunk on chunkChan,
\* or the panic of a send on the closed channel.
AfterFlush(c, g) ==
    IF FlushPanics(c)
    THEN /\ chunker' = c
         /\ gor' = Panic
    ELSE /\ chunker' = flushStream(c, FALSE)
         /\ gor' = g

\* Chunker.readStream, one pass of its loop: the scanner returns a line; with
\* execCtx done the goroutine returns, else the line goes to the buffer,
\* which is flushed when it holds ChunkSize bytes or more.
ReadLine ==
    /\ gor.reader.pc = "scan"
    /\ ScanLines(Unread, AtEOF).advance > 0
    /\ proc' = [proc EXCEPT !.pos = @ + ScanLines(Unread, AtEOF).advance]
    /\ IF run.ctx # "live"
       THEN /\ gor' = [gor EXCEPT !.reader.pc = "done"]
            /\ UNCHANGED chunker
       ELSE LET c == appendToBuffer(chunker, ScanLines(Unread, AtEOF).token)
            IN  IF Len(c.stdoutBuffer) >= ChunkSize
                THEN AfterFlush(c, gor)
                ELSE /\ chunker' = c
                     /\ UNCHANGED gor
    /\ reply' = NoReply
    /\ UNCHANGED <<node_commands, command_logs, restVars, net, run,
                   cmd_local, logs_local>>

\* Chunker.readStream at the end of the pipe: the scanner returns false and
\* what the buffer holds is flushed.
ReadEOF ==
    /\ gor.reader.pc = "scan"
    /\ AtEOF /\ Unread = <<>>
    /\ AfterFlush(chunker, [gor EXCEPT !.reader.pc = "done"])
    /\ reply' = NoReply
    /\ UNCHANGED <<node_commands, command_logs, restVars, net, run, proc,
                   cmd_local, logs_local>>

\* The flush ticker of StartChunking, until execCtx is done: flushBuffers
\* after chunkInterval.
IntervalFlush ==
    /\ run.ctx = "live"
    /\ gor.reader.pc # "dead"
    /\ chunker.stdoutBuffer # ""
    /\ AfterFlush(chunker, gor)
    /\ reply' = NoReply
    /\ UNCHANGED <<node_commands, command_logs, restVars, net, run, proc,
                   cmd_local, logs_local>>

\* The requests of AgentClient.PushCommandLogs and
\* AgentClient.UpdateCommandStatus; the latter sends exit_code and error_msg
\* only when they are not 0 and not "".
PushReq(chunks) ==
    [op |-> "push", pc |-> "begin", chunks |-> chunks, next |-> 1,
     acked |-> <<>>, code |-> 0]
StatusReq(status, exitCode, errorMsg) ==
    [op |-> "status", pc |-> "begin", status |-> status,
     exit_code |-> IF exitCode = 0 THEN Nil ELSE {exitCode},
     error_msg |-> IF errorMsg = "" THEN Null ELSE errorMsg, code |-> 0]
\* The response has arrived.
Answered(g) == gor[g].req.op # "none" /\ gor[g].req.pc = "done"

\* The service takes a push_logs request of the agent (bearer: the token of
\* WorkerNode) up to the inserts, as PushBegin does for any client.
ServePushBegin(g) ==
    /\ gor[g].req.op = "push" /\ gor[g].req.pc = "begin"
    /\ LET err == PushError(WorkerNode, WorkerCommand, gor[g].req.chunks)
       IN  IF err # ""
           THEN /\ reply' = PushReply(400, err, <<>>)
                /\ gor' = [gor EXCEPT ![g].req.pc = "done", ![g].req.code = 400]
           ELSE /\ reply' = NoReply
                /\ gor' = [gor EXCEPT
                      ![g].req.pc = "insert",
                      ![g].req.chunks =
                          ForceFinal(@, IsFinished(GetCommandByID(WorkerCommand)))]
    /\ UNCHANGED <<node_commands, command_logs, restVars, net, run, proc,
                   chunker, cmd_local, logs_local>>

\* One pass of the loop of Store.InsertLogChunks for a request of the agent,
\* as PushInsert.
ServePushInsert(g) ==
    /\ gor[g].req.op = "push" /\ gor[g].req.pc = "insert"
    /\ LET r == gor[g].req
           chunk == r.chunks[r.next]
           acked == appendAcked(r.acked, chunk.chunk_index)
       IN  IF GetCommandByID(WorkerCommand) = NoRow
           THEN /\ UNCHANGED command_logs
                /\ reply' = PushReply(400, "failed to insert log chunks", <<>>)
                /\ gor' = [gor EXCEPT ![g].req.pc = "done", ![g].req.code = 400]
           ELSE /\ command_logs' = InsertLogChunk(command_logs,
                                        LogRow(WorkerCommand, chunk))
                /\ IF r.next = Len(r.chunks)
                   THEN /\ reply' = PushReply(201, "", acked)
                        /\ gor' = [gor EXCEPT ![g].req.pc = "done",
                                              ![g].req.code = 201,
                                              ![g].req.acked = acked]
                   ELSE /\ reply' = NoReply
                        /\ gor' = [gor EXCEPT ![g].req.next = @ + 1,
                                              ![g].req.acked = acked]
    /\ UNCHANGED <<node_commands, restVars, net, run, proc, chunker,
                   cmd_local, logs_local>>

\* The service takes an update_status request of the agent: the checks of
\* StatusBegin, then the statements of StatusUpdate and StatusMark.
ServeStatusBegin(g) ==
    /\ gor[g].req.op = "status" /\ gor[g].req.pc = "begin"
    /\ IF StatusError(WorkerNode, WorkerCommand, gor[g].req) # ""
       THEN /\ reply' = StatusRefusal(StatusError(WorkerNode, WorkerCommand, gor[g].req))
            /\ gor' = [gor EXCEPT ![g].req.pc = "done", ![g].req.code = 400]
       ELSE /\ reply' = NoReply
            /\ gor' = [gor EXCEPT ![g].req.pc = "update"]
    /\ UNCHANGED <<node_commands, command_logs, restVars, net, run, proc,
                   chunker, cmd_local, logs_local>>

ServeStatusUpdate(g) ==
    /\ gor[g].req.op = "status" /\ gor[g].req.pc = "update"
    /\ node_commands' = SetCommandStatus(node_commands, WorkerCommand,
                            gor[g].req.status, gor[g].req.exit_code,
                            gor[g].req.error_msg)
    /\ IF gor[g].req.status \in Terminal
       THEN /\ gor' = [gor EXCEPT ![g].req.pc = "mark"]
            /\ reply' = NoReply
       ELSE /\ gor' = [gor EXCEPT ![g].req.pc = "done", ![g].req.code = 200]
            /\ reply' = StatusReply(200)
    /\ UNCHANGED <<command_logs, restVars, net, run, proc, chunker,
                   cmd_local, logs_local>>

ServeStatusMark(g) ==
    /\ gor[g].req.op = "status" /\ gor[g].req.pc = "mark"
    /\ command_logs' = MarkAllChunksAsFinal(command_logs, WorkerCommand)
    /\ gor' = [gor EXCEPT ![g].req.pc = "done", ![g].req.code = 200]
    /\ reply' = StatusReply(200)
    /\ UNCHANGED <<node_commands, restVars, net, run, proc, chunker,
                   cmd_local, logs_local>>

\* The network goes down, and comes back.
GoDown ==
    /\ net.up /\ net.outages < MaxOutages
    /\ net' = [up |-> FALSE, outages |-> net.outages + 1]
    /\ reply' = NoReply
    /\ UNCHANGED <<node_commands, command_logs, restVars, run, proc, chunker,
                   cmd_local, logs_local, gor>>
ComeUp ==
    /\ ~net.up
    /\ net' = [net EXCEPT !.up = TRUE]
    /\ reply' = NoReply
    /\ UNCHANGED <<node_commands, command_logs, restVars, run, proc, chunker,
                   cmd_local, logs_local, gor>>

\* Steps of the agent change neither the service's tables nor its response.
agentStep == reply' = NoReply /\ UNCHANGED <<node_commands, command_logs, restVars>>

\* RuntimeService.worker takes the command from commandChan and posts the
\* status running; the error of a request that fails is dropped.
MainStart ==
    /\ gor.main.pc = "start"
    /\ gor' = IF net.up
              THEN [gor EXCEPT !.main.pc = "starting",
                               !.main.req = StatusReq("running", 0, "")]
              ELSE [gor EXCEPT !.main.pc = "exec"]
    /\ agentStep
    /\ UNCHANGED <<net, run, proc, chunker, cmd_local, logs_local>>

\* executeRunCommand up to command.Wait: execCtx, the child, the chunker
\* with its reader, and the goroutine that consumes chunkChan.
MainExec ==
    /\ \/ gor.main.pc = "exec"
       \/ gor.main.pc = "starting" /\ Answered("main")
    /\ run' = [ctx |-> "live", killed |-> FALSE]
    /\ proc' = [proc EXCEPT !.state = "running"]
    /\ gor' = [gor EXCEPT !.main.pc = "wait", !.main.req = NoReq,
                          !.reader.pc = "scan", !.consumer.pc = "recv"]
    /\ agentStep
    /\ UNCHANGED <<net, chunker, cmd_local, logs_local>>

\* command.Wait returns: the child has exited.
MainWait ==
    /\ gor.main.pc = "wait"
    /\ proc.state = "exited"
    /\ gor' = [gor EXCEPT !.main.pc = "flush"]
    /\ agentStep
    /\ UNCHANGED <<net, run, proc, chunker, cmd_local, logs_local>>

\* Chunker.FinalFlush: what the buffer holds goes out as a final chunk and
\* chunkChan is closed.
MainFinalFlush ==
    /\ gor.main.pc = "flush"
    /\ chunker' = [flushStream(chunker, TRUE) EXCEPT !.closed = TRUE]
    /\ gor' = [gor EXCEPT !.main.pc = "upload"]
    /\ agentStep
    /\ UNCHANGED <<net, run, proc, cmd_local, logs_local>>

\* The goroutine of executeRunCommand that ranges over chunkChan: it takes a
\* chunk, or ends when the channel is closed and empty.
ConsumerRecv ==
    /\ gor.consumer.pc = "recv"
    /\ IF chunker.chunkChan # <<>>
       THEN /\ chunker' = [chunker EXCEPT !.chunkChan = Tail(@)]
            /\ gor' = [gor EXCEPT !.consumer.pc = "save",
                                  !.consumer.chunk = Head(chunker.chunkChan)]
       ELSE /\ chunker.closed
            /\ gor' = [gor EXCEPT !.consumer.pc = "done"]
            /\ UNCHANGED chunker
    /\ agentStep
    /\ UNCHANGED <<net, run, proc, cmd_local, logs_local>>

\* storage.SaveLogChunk(execCtx, ...): the statement fails when execCtx is
\* done, and the error is dropped.
ConsumerSave ==
    /\ gor.consumer.pc = "save"
    /\ logs_local' = IF run.ctx = "live"
                     THEN SaveLogChunk(logs_local, WorkerCommand, gor.consumer.chunk)
                     ELSE logs_local
    /\ gor' = [gor EXCEPT !.consumer.pc = "push"]
    /\ agentStep
    /\ UNCHANGED <<net, run, proc, chunker, cmd_local>>

\* agentClient.PushCommandLogs(execCtx, ...) with the one chunk: no request
\* leaves with execCtx done or the network down.
ConsumerPush ==
    /\ gor.consumer.pc = "push"
    /\ gor' = IF run.ctx = "live" /\ net.up
              THEN [gor EXCEPT !.consumer.pc = "pushing",
                               !.consumer.req = PushReq(<<gor.consumer.chunk>>)]
              ELSE [gor EXCEPT !.consumer.pc = "recv"]
    /\ agentStep
    /\ UNCHANGED <<net, run, proc, chunker, cmd_local, logs_local>>

\* The response: after a 201 with acked indexes,
\* storage.MarkChunksAcked(execCtx, ...).
ConsumerAck ==
    /\ gor.consumer.pc = "pushing" /\ Answered("consumer")
    /\ logs_local' =
          IF gor.consumer.req.code = 201 /\ run.ctx = "live"
          THEN MarkChunksAcked(logs_local, WorkerCommand,
                               Range(gor.consumer.req.acked))
          ELSE logs_local
    /\ gor' = [gor EXCEPT !.consumer.pc = "recv", !.consumer.req = NoReq]
    /\ agentStep
    /\ UNCHANGED <<net, run, proc, chunker, cmd_local>>

\* ChunkStorageRetryService.UploadChunksForCommand, called by
\* executeRunCommand after FinalFlush with isFinal true and by the ticker of
\* ChunkStorageRetryService.Start with isFinal false: the pending rows are
\* read; with none the call returns.
UploadEnd(g) == IF g = "retry" THEN "idle" ELSE "uploaded"
UploadBegin(g) ==
    /\ \/ g = "main" /\ gor[g].pc = "upload"
       \/ g = "retry" /\ gor[g].pc = "idle"
                      /\ GetPendingChunks(logs_local, WorkerCommand) # <<>>
    /\ LET chunks == GetPendingChunks(logs_local, WorkerCommand)
       IN  gor' = IF chunks = <<>>
                  THEN [gor EXCEPT ![g].pc = UploadEnd(g)]
                  ELSE [gor EXCEPT ![g].pc = "attempt", ![g].attempt = 0,
                                   ![g].batch = chunkMaps(chunks, g = "main")]
    /\ agentStep
    /\ UNCHANGED <<net, run, proc, chunker, cmd_local, logs_local>>

\* RetryWithBackoff after a failed attempt: the next attempt, or the return
\* of the last error after RetryAttempts attempts.
AfterFailure(g) ==
    IF gor[g].attempt + 1 < RetryAttempts
    THEN [gor EXCEPT ![g].pc = "attempt", ![g].attempt = @ + 1, ![g].req = NoReq]
    ELSE [gor EXCEPT ![g].pc = UploadEnd(g), ![g].attempt = 0,
                     ![g].batch = <<>>, ![g].req = NoReq]

\* An attempt: the push of the batch leaves, or fails with the network down.
UploadSend(g) ==
    /\ gor[g].pc = "attempt"
    /\ gor' = IF net.up
              THEN [gor EXCEPT ![g].pc = "pushing", ![g].req = PushReq(gor[g].batch)]
              ELSE AfterFailure(g)
    /\ agentStep
    /\ UNCHANGED <<net, run, proc, chunker, cmd_local, logs_local>>

\* The response of an attempt: after a 201 the acked chunks are marked and
\* the retries of the others of the batch incremented; any other response is
\* a failed attempt.
UploadDone(g) ==
    /\ gor[g].pc = "pushing" /\ Answered(g)
    /\ g \in {"main", "retry"}
    /\ IF gor[g].req.code = 201
       THEN LET acked == Range(gor[g].req.acked)
                all == {gor[g].batch[i].chunk_index : i \in 1..Len(gor[g].batch)}
            IN  /\ logs_local' = IncrementChunkRetries(
                                     MarkChunksAcked(logs_local, WorkerCommand, acked),
                                     WorkerCommand, all \ acked)
                /\ gor' = [gor EXCEPT ![g].pc = UploadEnd(g), ![g].attempt = 0,
                                      ![g].batch = <<>>, ![g].req = NoReq]
       ELSE /\ gor' = AfterFailure(g)
            /\ UNCHANGED logs_local
    /\ agentStep
    /\ UNCHANGED <<net, run, proc, chunker, cmd_local>>

\* The status executeRunCommand reports: timeout when the deadline of
\* execCtx killed the child, else success.
FinalStatus == IF run.killed THEN "timeout" ELSE "success"

\* storage.UpdateCommandStatus: the local row of the command.
MainLocalStatus ==
    /\ gor.main.pc = "uploaded"
    /\ cmd_local' = FinalStatus
    /\ gor' = [gor EXCEPT !.main.pc = "post"]
    /\ agentStep
    /\ UNCHANGED <<net, run, proc, chunker, logs_local>>

\* agentClient.UpdateCommandStatus with the final status; its error is
\* dropped.
MainPost ==
    /\ gor.main.pc = "post"
    /\ gor' = IF net.up
              THEN [gor EXCEPT
                      !.main.pc = "posting",
                      !.main.req =
                          IF run.killed
                          THEN StatusReq("timeout", -1, "command execution timed out")
                          ELSE StatusReq("success", 0, "")]
              ELSE [gor EXCEPT !.main.pc = "return"]
    /\ agentStep
    /\ UNCHANGED <<net, run, proc, chunker, cmd_local, logs_local>>

\* executeRunCommand returns: the deferred cancel of execCtx.
MainReturn ==
    /\ \/ gor.main.pc = "return"
       \/ gor.main.pc = "posting" /\ Answered("main")
    /\ run' = [run EXCEPT !.ctx = IF @ = "live" THEN "canceled" ELSE @]
    /\ gor' = [gor EXCEPT !.main.pc = "done", !.main.req = NoReq]
    /\ agentStep
    /\ UNCHANGED <<net, proc, chunker, cmd_local, logs_local>>

\* The agent with command 1 of n1, which a poll has just leased (running on
\* the service, saved as running locally), on commandChan.
WorkerReady(out) ==
    /\ now = 0
    /\ nodes = {NodeRow("n1", "a0", 0, FALSE)}
    /\ node_commands =
          {[id |-> 1, command_id |-> WorkerCommand, node_id |-> WorkerNode,
            command_type |-> "RunCommand", payload |-> RunEcho,
            status |-> "running", created_at |-> 0, updated_at |-> 0,
            exit_code |-> Nil, error_msg |-> Null]}
    /\ cmdSeq = 1
    /\ command_logs = EmptyBag
    /\ calls = [t \in Callers |-> Idle]
    /\ reply = NoReply
    /\ requests = 0
    /\ dispatched = SetToBag({WorkerCommand})
    /\ registrations = 0
    /\ issued = <<>>
    /\ agent = NoAgent
    /\ hbSent = NoReply
    /\ net = [up |-> TRUE, outages |-> 0]
    /\ run = [ctx |-> "none", killed |-> FALSE]
    /\ proc = [state |-> "none", out |-> out, pos |-> 0]
    /\ chunker = [currentChunkIndex |-> 0, stdoutBuffer |-> "",
                  chunkChan |-> <<>>, closed |-> FALSE]
    /\ cmd_local = "running"
    /\ logs_local = {}
    /\ gor = [main |-> Goroutine("start"), reader |-> Goroutine("off"),
              consumer |-> Goroutine("off"), retry |-> Goroutine("idle")]
InitWorker == WorkerReady(WorkerOutput)

\* The steps of each goroutine of the agent, each together with the handling
\* of the requests it sends.
Serve(g) ==
    \/ ServePushBegin(g) \/ ServePushInsert(g)
    \/ ServeStatusBegin(g) \/ ServeStatusUpdate(g) \/ ServeStatusMark(g)
Upload(g) == UploadBegin(g) \/ UploadSend(g) \/ UploadDone(g)
MainSteps ==
    \/ MainStart \/ MainExec \/ MainWait \/ MainFinalFlush
    \/ MainLocalStatus \/ MainPost \/ MainReturn
    \/ Upload("main") \/ Serve("main")
ReaderSteps == ReadLine \/ ReadEOF
ConsumerSteps ==
    \/ ConsumerRecv \/ ConsumerSave \/ ConsumerPush \/ ConsumerAck
    \/ Serve("consumer")
RetrySteps == Upload("retry") \/ Serve("retry")

AgentNext ==
    MainSteps \/ ReaderSteps \/ IntervalFlush \/ ConsumerSteps \/ RetrySteps

NextWorker == AgentNext \/ ProcExit \/ Deadline \/ GoDown \/ ComeUp

\* The Go scheduler runs every goroutine that can take a step, the ticker of
\* the chunker fires, and a network that is down comes back; the child may
\* run until the deadline and the network fails at most MaxOutages times.
SpecWorker ==
    /\ InitWorker /\ [][NextWorker]_vars
    /\ WF_vars(MainSteps) /\ WF_vars(ReaderSteps) /\ WF_vars(IntervalFlush)
    /\ WF_vars(ConsumerSteps) /\ WF_vars(RetrySteps) /\ WF_vars(ComeUp)

\* The chunk indexes an execution can use, and the rows of command_logs the
\* service holds for the command.
ChunkIndexes == 0..(Len(WorkerOutput) - 1)
StoredRows == {x \in BagToSet(command_logs) : x.command_id = WorkerCommand}
ServiceStatus ==
    IF GetCommandByID(WorkerCommand) = NoRow THEN "none"
    ELSE GetCommandByID(WorkerCommand).status

\* C11: every chunk the chunker produces (every index it has used) is
\* eventually a row of command_logs on the service, the network being up
\* from some time on and the service accepting the pushes.
ChunksEventuallyStored ==
    \A k \in ChunkIndexes :
        (chunker.currentChunkIndex > k) ~> (\E x \in StoredRows : x.chunk_index = k)

\* C12: once the worker has finished executing the command (it has recorded
\* the final status locally), the service eventually holds a terminal status
\* for it.
StatusEventuallyRecorded ==
    (cmd_local \in Terminal) ~> (ServiceStatus \in Terminal)

LocalRow(chunkIndex, data, status) ==
    [command_id |-> WorkerCommand, chunk_index |-> chunkIndex,
     stream |-> "stdout", data |-> data, status |-> status, retries |-> 0]
RestartRows ==
    {{LocalRow(0, "a\n", "pending")},
     {LocalRow(1, "b\n", "pending")},
     {LocalRow(0, "a\n", "pending"), LocalRow(1, "b\n", "pending")},
     {LocalRow(0, "a\n", "acked"), LocalRow(1, "b\n", "pending")}}
InitRestart ==
    /\ now = 0
    /\ nodes = {NodeRow("n1", "a0", 0, FALSE)}
    /\ \E st \in {"running", "success"} :
          node_commands =
             {[id |-> 1, command_id |-> WorkerCommand, node_id |-> WorkerNode,
               command_type |-> "RunCommand", payload |-> RunEcho,
               status |-> st, created_at |-> 0, updated_at |-> 0,
               exit_code |-> Nil, error_msg |-> Null]}
    /\ cmdSeq = 1
    /\ command_logs \in
          {EmptyBag,
           SetToBag({LogRow(WorkerCommand, Chunk(0, "stdout", "a\n", FALSE))})}
    /\ calls = [t \in Callers |-> Idle]
    /\ reply = NoReply
    /\ requests = 0
    /\ dispatched = SetToBag({WorkerCommand})
    /\ registrations = 0
    /\ issued = <<>>
    /\ agent = NoAgent
    /\ hbSent = NoReply
    /\ net \in {[up |-> b, outages |-> 0] : b \in BOOLEAN}
    /\ run = [ctx |-> "none", killed |-> FALSE]
    /\ proc = [state |-> "none", out |-> <<>>, pos |-> 0]
    /\ chunker = [currentChunkIndex |-> 0, stdoutBuffer |-> "",
                  chunkChan |-> <<>>, closed |-> FALSE]
    /\ cmd_local = "running"
    /\ logs_local \in RestartRows
    /\ gor = [main |-> Goroutine("done"), reader |-> Goroutine("off"),
              consumer |-> Goroutine("off"), retry |-> Goroutine("idle")]

\* The retry service and the pushes it sends.
RetryDrain ==
    Upload("retry") \/ ServePushBegin("retry") \/ ServePushInsert("retry")
NextRestart == RetryDrain \/ GoDown \/ ComeUp

\* The ticker of the retry service fires and its requests are handled; a
\* network that is down comes back and fails at most MaxOutages times.
SpecRestart ==
    InitRestart /\ [][NextRestart]_vars /\ WF_vars(RetryDrain) /\ WF_vars(ComeUp)

\* The local row of chunk k of the command.
LocalRowOf(k) == {r \in logs_local : r.command_id = WorkerCommand /\ r.chunk_index = k}
MaxOutputLen == 3
Bytes == {"a", LF, CR}
Outputs == UNION {[1..n -> Bytes] : n \in 0..MaxOutputLen}
InitChunker == \E out \in Outputs : WorkerReady(out)
NextChunker ==
    MainSteps \/ ReaderSteps \/ IntervalFlush \/ ConsumerSteps \/ ProcExit
SpecChunker ==
    /\ InitChunker /\ [][NextChunker]_vars
    /\ WF_vars(MainSteps) /\ WF_vars(ReaderSteps) /\ WF_vars(IntervalFlush)
    /\ WF_vars(ConsumerSteps) /\ WF_vars(ProcExit)

\* The concatenation of the data of the stdout rows of a get_command_logs
\* response.
RECURSIVE ConcatStdout(_)
ConcatStdout(logs) ==
    IF logs = <<>> THEN ""
    ELSE (IF Head(logs).stream = "stdout" THEN Head(logs).data ELSE "")
         \o ConcatStdout(Tail(logs))
\* The execution is over and nothing was lost on the way: the reader read the
\* whole output, the worker returned, the consumer ended, and the service
\* holds every chunk the chunker produced.
Delivered ==
    /\ gor.reader.pc = "done" /\ gor.main.pc = "done" /\ gor.consumer.pc = "done"
    /\ proc.pos = Len(proc.out)
    /\ chunker.stdoutBuffer = ""
    /\ Cardinality(StoredRows) = chunker.currentChunkIndex

\* C14: once the output of the command is delivered, the stdout rows of
\* get_command_logs, concatenated in chunk_index order, are the bytes the
\* command wrote.
RoundTrip ==
    Delivered =>
        \A logs \in GetCommandLogs(WorkerCommand, Nil) :
            ConcatStdout(logs) = Str(proc.out)

\* The order of dispatch: created_at ascending, ties by ascending primary key.
DispatchBefore(a, b) ==
    \/ a.created_at < b.created_at
    \/ a.created_at = b.created_at /\ a.id < b.id
\* C15: the commands of a node are handed out by created_at ascending, ties
\* by ascending primary key: a next response carries its commands in that
\* order, and leaves no command of the node queued that comes before one it
\* carries.
DispatchedInOrder ==
    (reply.op = "next" /\ reply.code = 200) =>
        LET cmds == [i \in 1..Len(reply.commands) |->
                        GetCommandByID(reply.commands[i])]
        IN  /\ \A i, j \in 1..Len(cmds) :
                  i < j => DispatchBefore(cmds[i], cmds[j])
            /\ \A i \in 1..Len(cmds) : \A c \in node_commands :
                  (c.node_id = cmds[i].node_id /\ c.status = "queued")
                      => DispatchBefore(cmds[i], c)

\* C16: a next call whose request context is cancelled while the poll is
\* pending ends with the 200 response without commands and leaves every
\* command as it is.
CancelYieldsEmpty ==
    [][\A t \in Callers :
          NextCancel(t) => reply' = NextReply(<<>>) /\ node_commands' = node_commands]_vars

\* C17: a heartbeat for a node is accepted (200, last_seen_at set) only when
\* the caller's bearer token is valid and its subject is that node.
HeartbeatNeedsOwnToken ==
    [][\A b \in Bearers, n \in HeartbeatNodes :
          (HeartbeatRequest(b, n) /\ reply'.code = 200)
              => getNodeIDFromToken(b) = n]_vars

\* The status changes a node may make.
AllowedTransition(from, to) ==
    \/ from = "running" /\ to \in {"streaming"} \cup Terminal
    \/ from = "streaming" /\ to \in Terminal
\* C19: a status change made by an update_status call is running to
\* streaming, running to terminal or streaming to terminal: no call sets a
\* command back to queued or changes the status of a queued command.
OnlyAllowedTransitions ==
    [][\A t \in Callers :
          StatusUpdate(t) =>
              \A c \in node_commands : \A d \in node_commands' :
                  (c.command_id = d.command_id /\ c.status # d.status)
                      => AllowedTransition(c.status, d.status)]_vars

\* The submit requests that are to be rejected: unknown command_type, payload
\* that fails the schema of its type, node not registered, node disabled.
UnknownType(r) == r.command_type \notin {"RunCommand", "UpdateAgent", "UpdatePackage"}
FailsSchema(r) ==
    \/ r.command_type = "RunCommand" /\ r.payload.cmd = ""
    \/ r.command_type = "UpdateAgent"
          /\ (r.payload.version = "" \/ r.payload.url # "http://h/a")
    \/ r.command_type = "UpdatePackage"
          /\ (r.payload.packages = {}
              \/ r.payload.action \notin {"install", "remove", "upgrade"})
NotRegistered(r) == \A n \in nodes : n.node_id # r.node_id
NodeDisabled(r) == \E n \in nodes : n.node_id = r.node_id /\ n.disabled
InvalidSubmit(r) ==
    UnknownType(r) \/ FailsSchema(r) \/ NotRegistered(r) \/ NodeDisabled(r)
DefaultWait == 30
MaxWait == 60
\* The last second of the clock of a poll.
MaxPollTime == 31

\* The digits of a query parameter.
Digits == {"0", "1", "2", "3", "4", "5", "6", "7", "8", "9"}
DigitValue(c) ==
    CASE c = "0" -> 0 [] c = "1" -> 1 [] c = "2" -> 2 [] c = "3" -> 3
      [] c = "4" -> 4 [] c = "5" -> 5 [] c = "6" -> 6 [] c = "7" -> 7
      [] c = "8" -> 8 [] c = "9" -> 9

RECURSIVE DigitsValue(_, _)
DigitsValue(s, acc) ==
    IF s = <<>> THEN acc
    ELSE DigitsValue(Tail(s), 10 * acc + DigitValue(Head(s)))

\* strconv.Atoi on a string given as its characters: {n}, or Nil for the
\* error (no digit, or a character that is none).
Atoi(s) ==
    LET signed == s # <<>> /\ Head(s) \in {"+", "-"}
        digits == IF signed THEN Tail(s) ELSE s
    IN  IF digits = <<>> \/ \E i \in 1..Len(digits) : digits[i] \notin Digits
        THEN Nil
        ELSE IF signed /\ Head(s) = "-" THEN {0 - DigitsValue(digits, 0)}
        ELSE {DigitsValue(digits, 0)}

\* The values of ?wait= the polls are made with; <<>> is the absent parameter.
WaitInputs ==
    {<<>>, <<"1">>, <<"2">>, <<"0">>, <<"6", "1">>, <<"-", "1">>, <<"x">>}

\* The seconds the handler waits.
waitSeconds(waitStr) ==
    IF waitStr # <<>> /\ \E w \in Atoi(waitStr) : w > 0 /\ w <= MaxWait
    THEN CHOOSE w \in Atoi(waitStr) : TRUE
    ELSE DefaultWait

\* The handler starts: ctx carries the deadline, the channel of the ticker
\* (of capacity one) is empty.  Requests arrive in the first seconds of the
\* clock.
PollBegin(t, nodeID, waitStr) ==
    /\ IsIdle(t)
    /\ now <= MaxTime /\ requests < MaxRequests
    /\ now + waitSeconds(waitStr) <= MaxPollTime
    /\ requests' = requests + 1
    /\ calls' = [calls EXCEPT ![t] =
          [op |-> "poll", pc |-> "wait", node |-> nodeID,
           deadline |-> now + waitSeconds(waitStr), tick |-> FALSE,
           commands |-> <<>>]]
    /\ reply' = NoReply
    /\ UNCHANGED <<now, nodes, node_commands, cmdSeq, command_logs,
                   dispatched, regVars, agentVars, workerVars>>

\* A second passes: every ticker sends a tick, which is dropped if the last
\* one was not received.
PollClock ==
    /\ now < MaxPollTime
    /\ now' = now + 1
    /\ calls' = [t \in Callers |->
          IF calls[t].op = "poll" THEN [calls[t] EXCEPT !.tick = TRUE]
          ELSE calls[t]]
    /\ reply' = NoReply
    /\ UNCHANGED <<nodes, node_commands, cmdSeq, command_logs,
                   requests, dispatched, regVars, agentVars, workerVars>>

\* The select takes <-ctx.Done(): 200 with no command.
PollDone(t) ==
    /\ calls[t].op = "poll" /\ calls[t].pc = "wait"
    /\ now >= calls[t].deadline
    /\ reply' = NextReply(<<>>)
    /\ Finish(t)
    /\ UNCHANGED <<now, nodes, node_commands, cmdSeq, command_logs, requests,
                   dispatched, regVars, agentVars, workerVars>>

\* The select takes <-ticker.C, before the deadline: the handler calls
\* GetNextCommand with ctx.
PollTick(t) ==
    /\ calls[t].op = "poll" /\ calls[t].pc = "wait"
    /\ calls[t].tick /\ now < calls[t].deadline
    /\ calls' = [calls EXCEPT ![t].pc = "select", ![t].tick = FALSE]
    /\ reply' = NoReply
    /\ UNCHANGED <<now, nodes, node_commands, cmdSeq, command_logs, requests,
                   dispatched, regVars, agentVars, workerVars>>

\* pool.Query(ctx, ...) of Store.GetNextCommand.  With ctx past its deadline
\* the statement fails and the handler answers 500.
PollSelect(t) ==
    /\ calls[t].op = "poll" /\ calls[t].pc = "select"
    /\ IF now >= calls[t].deadline
       THEN /\ reply' = NextError
            /\ Finish(t)
       ELSE /\ reply' = NoReply
            /\ \E selected \in SelectQueued(calls[t].node) :
                 calls' = [calls EXCEPT
                     ![t].pc = IF selected = <<>> THEN "wait" ELSE "update",
                     ![t].commands = selected]
    /\ UNCHANGED <<now, nodes, node_commands, cmdSeq, command_logs, requests,
                   dispatched, regVars, agentVars, workerVars>>

\* pool.Exec(ctx, updateQuery, ...) of Store.GetNextCommand, and its return.
PollUpdate(t) ==
    /\ calls[t].op = "poll" /\ calls[t].pc = "update"
    /\ IF now >= calls[t].deadline
       THEN /\ reply' = NextError
            /\ Finish(t)
            /\ UNCHANGED node_commands
       ELSE LET affected == LeaseAffected(SeqIds(calls[t].commands))
                result == LeaseResult(calls[t].commands, affected)
            IN  /\ node_commands' = (node_commands \ affected) \cup
                      {[c EXCEPT !.status = "running", !.updated_at = now] :
                          c \in affected}
                /\ calls' = [calls EXCEPT
                      ![t].pc = IF result = <<>> THEN "wait" ELSE "respond",
                      ![t].commands = result]
                /\ reply' = NoReply
    /\ UNCHANGED <<now, nodes, cmdSeq, command_logs, requests, dispatched,
                   regVars, agentVars, workerVars>>

\* The handler answers 200 with the commands the store returned.
PollRespond(t) ==
    /\ calls[t].op = "poll" /\ calls[t].pc = "respond"
    /\ reply' = NextReply(calls[t].commands)
    /\ dispatched' = dispatched (+) SetToBag(SeqIds(calls[t].commands))
    /\ Finish(t)
    /\ UNCHANGED <<now, nodes, node_commands, cmdSeq, command_logs, requests,
                   regVars, agentVars, workerVars>>

\* An operator submits the one command for n1 the polls are to find.
PollSubmit ==
    /\ now <= MaxTime /\ cmdSeq = 0
    /\ SubmitCommand("RunCommand", "n1", RunEcho)

PollSteps(t) ==
    PollDone(t) \/ PollTick(t) \/ PollSelect(t) \/ PollUpdate(t) \/ PollRespond(t)

\* Polls of n1 with every wait, submissions for n1, the clock.
NextPoll ==
    \/ PollClock
    \/ PollSubmit
    \/ \E t \in Callers, w \in WaitInputs : PollBegin(t, "n1", w)
    \/ \E t \in Callers : PollDone(t)
    \/ \E t \in Callers : PollTick(t)
    \/ \E t \in Callers : PollSelect(t)
    \/ \E t \in Callers : PollUpdate(t)
    \/ \E t \in Callers : PollRespond(t)

\* Each handler is a goroutine that runs while it can, and time passes.
SpecPoll ==
    /\ Init /\ [][NextPoll]_vars
    /\ \A t \in Callers : WF_vars(PollSteps(t))
    /\ WF_vars(PollClock)

\* Every poll ends.
PollTerminates == \A t \in Callers : (calls[t].op = "poll") ~> IsIdle(t)

\* A poll ends with the commands it leased, or with the empty result once its
\* wait has elapsed; and a step of a poll that changes a command row leases
\* it and goes on to return it.
PollEndsAsStated ==
    [][\A t \in Callers :
          /\ (calls[t].op = "poll" /\ calls'[t].op = "idle")
             => /\ reply'.op = "next" /\ reply'.code = 200
                /\ \/ /\ reply'.commands # <<>>
                      /\ \A i \in 1..Len(reply'.commands) :
                            \E c \in node_commands :
                               /\ c.command_id = reply'.commands[i]
                               /\ c.status # "queued"
                   \/ /\ reply'.commands = <<>>
                      /\ now >= calls[t].deadline
                      /\ node_commands' = node_commands
          /\ (PollUpdate(t) /\ node_commands' # node_commands)
             => calls'[t].pc = "respond" /\ calls'[t].commands # <<>>]_vars

\* C23: every next call terminates: it returns the commands it leased, or,
\* once the effective wait has elapsed (the wait parameter when it is an
\* integer in 1..60, 30 otherwise) with nothing queued for the node, the
\* empty result, having changed no command row.
NextTerminatesAsStated == PollTerminates /\ PollEndsAsStated

\* C24: a push_logs call that reads the command in a terminal status stores
\* every chunk of the call with is_final true, whatever the chunk carried:
\* the call goes on with every chunk forced final, and every insert leaves
\* the row of the chunk's key with the is_final the call holds for it.
LatePushStoredFinal ==
    [][\A t \in Callers :
          /\ (/\ IsIdle(t) /\ calls'[t].op = "push"
              /\ GetCommandByID(calls'[t].command_id).status \in Terminal)
             => \A i \in 1..Len(calls'[t].chunks) : calls'[t].chunks[i].is_final
          /\ (PushInsert(t) /\ GetCommandByID(calls[t].command_id) # NoRow)
             => \E x \in BagToSet(command_logs') :
                   /\ LogKey(x) = <<calls[t].command_id,
                                    calls[t].chunks[calls[t].next].chunk_index,
                                    calls[t].chunks[calls[t].next].stream>>
                   /\ x.is_final = calls[t].chunks[calls[t].next].is_final]_vars

\* Command 1 was set to success, then n1 pushed for it the stderr chunk,
\* which carries is_final false: the row stored is final.
LatePushStoredFinalWitness ==
    /\ reply = PushReply(201, "", <<0>>)
    /\ requests = 2
    /\ \E c \in node_commands : c.command_id = 1 /\ c.status = "success"
    /\ \E x \in BagToSet(command_logs) :
          LogKey(x) = <<1, 0, "stderr">> /\ x.is_final

\* ----------------------------------------- the chunker's unguarded fields

\* The Chunker has no lock: the two readStream goroutines, the flush ticker
\* and FinalFlush (called by executeRunCommand) read and write
\* currentChunkIndex, stdoutBuffer and stderrBuffer as they come.  Here an
\* append and a flush are steps between which the other goroutines run: the
\* append reads the buffer, then writes it; the flush takes the buffer, then
\* reads the index, then advances it and sends.  The buffers and the data of
\* a chunk are kept as bytes.

\* The lines the child wrote to each pipe before it exited.
StreamLines == [stdout |-> <<"a", "c">>, stderr |-> <<"b">>]

ChunkerGoroutines == {"stdout", "stderr", "ticker", "main"}

\* A call of flushStream (final: of flushStreamFinal) a goroutine has to make.
Flush(stream, final) == [stream |-> stream, final |-> final]

\* A goroutine: where it is, the flush calls it has left and where it goes
\* after them, its local variables line, buffer and chunk.
ChunkerGoroutine(pc) ==
    [pc |-> pc, work |-> <<>>, ret |-> pc, line |-> <<>>, buffer |-> <<>>,
     chunk |-> NoChunk]

BufferOf(c, stream) ==
    IF stream = "stdout" THEN c.stdoutBuffer ELSE c.stderrBuffer
SetBuffer(c, stream, bytes) ==
    IF stream = "stdout" THEN [c EXCEPT !.stdoutBuffer = bytes]
    ELSE [c EXCEPT !.stderrBuffer = bytes]

streamFrame == <<node_commands, command_logs, reply, restVars, net, run,
                 cmd_local, logs_local>>

\* The child has exited with its output in the pipes; StartChunking and
\* cmd.Wait have returned.
InitStreams ==
    /\ now = 0
    /\ nodes = {NodeRow("n1", "a0", 0, FALSE)}
    /\ node_commands =
          {[id |-> 1, command_id |-> WorkerCommand, node_id |-> WorkerNode,
            command_type |-> "RunCommand", payload |-> RunEcho,
            status |-> "running", created_at |-> 0, updated_at |-> 0,
            exit_code |-> Nil, error_msg |-> Null]}
    /\ cmdSeq = 1
    /\ command_logs = EmptyBag
    /\ calls = [t \in Callers |-> Idle]
    /\ reply = NoReply
    /\ requests = 0
    /\ dispatched = SetToBag({WorkerCommand})
    /\ registrations = 0
    /\ issued = <<>>
    /\ agent = NoAgent
    /\ hbSent = NoReply
    /\ net = [up |-> TRUE, outages |-> 0]
    /\ run = [ctx |-> "live", killed |-> FALSE]
    /\ proc = [state |-> "exited", out |-> StreamLines,
               pos |-> [stdout |-> 0, stderr |-> 0]]
    /\ chunker = [currentChunkIndex |-> 0, stdoutBuffer |-> <<>>,
                  stderrBuffer |-> <<>>, chunkChan |-> <<>>, closed |-> FALSE]
    /\ cmd_local = "running"
    /\ logs_local = {}
    /\ gor = [stdout |-> ChunkerGoroutine("scan"),
              stderr |-> ChunkerGoroutine("scan"),
              ticker |-> ChunkerGoroutine("idle"),
              main |-> ChunkerGoroutine("wait")]

\* readStream: scanner.Scan returns a line, and appendToBuffer reads the
\* buffer it is to append to.
StreamScan(s) ==
    /\ gor[s].pc = "scan"
    /\ proc.pos[s] < Len(proc.out[s])
    /\ proc' = [proc EXCEPT !.pos[s] = @ + 1]
    /\ gor' = [gor EXCEPT ![s].pc = "store",
                          ![s].line = <<proc.out[s][proc.pos[s] + 1]>>,
                          ![s].buffer = BufferOf(chunker, s)]
    /\ UNCHANGED <<chunker, streamFrame>>

\* appendToBuffer writes the buffer back: what it read, the line, a newline.
AppendStore(s) ==
    /\ gor[s].pc = "store"
    /\ chunker' = SetBuffer(chunker, s, gor[s].buffer \o gor[s].line \o <<LF>>)
    /\ gor' = [gor EXCEPT ![s].pc = "size", ![s].line = <<>>,
                          ![s].buffer = <<>>]
    /\ UNCHANGED <<proc, streamFrame>>

\* The size checks of appendToBuffer, of both buffers.
SizeFlushes(c) ==
    (IF Len(c.stdoutBuffer) >= ChunkSize THEN <<Flush("stdout", FALSE)>> ELSE <<>>)
    \o (IF Len(c.stderrBuffer) >= ChunkSize THEN <<Flush("stderr", FALSE)>> ELSE <<>>)

SizeCheck(s) ==
    /\ gor[s].pc = "size"
    /\ gor' = [gor EXCEPT
          ![s].pc = IF SizeFlushes(chunker) = <<>> THEN "scan" ELSE "load",
          ![s].work = SizeFlushes(chunker),
          ![s].ret = "scan"]
    /\ UNCHANGED <<chunker, proc, streamFrame>>

\* readStream after the last line: the buffer of the stream is flushed.
StreamEOF(s) ==
    /\ gor[s].pc = "scan"
    /\ proc.pos[s] = Len(proc.out[s])
    /\ gor' = [gor EXCEPT ![s].pc = "load", ![s].work = <<Flush(s, FALSE)>>,
                          ![s].ret = "done"]
    /\ UNCHANGED <<chunker, proc, streamFrame>>

\* The ticker fires and the interval has passed: flushBuffers.
TickerFire ==
    /\ gor.ticker.pc = "idle"
    /\ gor' = [gor EXCEPT
          !.ticker.pc = "load",
          !.ticker.work = <<Flush("stdout", FALSE), Flush("stderr", FALSE)>>,
          !.ticker.ret = "idle"]
    /\ UNCHANGED <<chunker, proc, streamFrame>>

\* executeRunCommand calls FinalFlush.
FinalFlush ==
    /\ gor.main.pc = "wait"
    /\ gor' = [gor EXCEPT
          !.main.pc = "load",
          !.main.work = <<Flush("stdout", TRUE), Flush("stderr", TRUE)>>,
          !.main.ret = "close"]
    /\ UNCHANGED <<chunker, proc, streamFrame>>

\* The flush call g is in is over.
Return(g) ==
    [gor EXCEPT ![g].work = Tail(@), ![g].buffer = <<>>, ![g].chunk = NoChunk,
                ![g].pc = IF Len(gor[g].work) = 1 THEN gor[g].ret ELSE "load"]

\* flushStream / flushStreamFinal: the length check, buffer = c.xBuffer and
\* c.xBuffer = nil.
FlushTake(g) ==
    /\ gor[g].pc = "load"
    /\ IF BufferOf(chunker, Head(gor[g].work).stream) = <<>>
       THEN /\ gor' = Return(g)
            /\ UNCHANGED chunker
       ELSE /\ gor' = [gor EXCEPT
                  ![g].pc = "index",
                  ![g].buffer = BufferOf(chunker, Head(gor[g].work).stream)]
            /\ chunker' = SetBuffer(chunker, Head(gor[g].work).stream, <<>>)
    /\ UNCHANGED <<proc, streamFrame>>

\* The chunk is built with the value of currentChunkIndex.
FlushIndex(g) ==
    /\ gor[g].pc = "index"
    /\ gor' = [gor EXCEPT
          ![g].pc = "send",
          ![g].chunk = Chunk(chunker.currentChunkIndex,
                             Head(gor[g].work).stream, gor[g].buffer,
                             Head(gor[g].work).final)]
    /\ UNCHANGED <<chunker, proc, streamFrame>>

\* c.currentChunkIndex++ and the send on chunkChan: it panics on the closed
\* channel, drops the chunk when the channel is full.
FlushSend(g) ==
    /\ gor[g].pc = "send"
    /\ IF chunker.closed
       THEN /\ gor' = [h \in ChunkerGoroutines |-> [gor[h] EXCEPT !.pc = "dead"]]
            /\ chunker' = [chunker EXCEPT !.currentChunkIndex = @ + 1]
       ELSE /\ chunker' = [chunker EXCEPT
                  !.currentChunkIndex = @ + 1,
                  !.chunkChan =
                      IF Len(@) < ChunkChanCap THEN Append(@, gor[g].chunk) ELSE @]
            /\ gor' = Return(g)
    /\ UNCHANGED <<proc, streamFrame>>

\* FinalFlush closes chunkChan.
FinalClose ==
    /\ gor.main.pc = "close"
    /\ chunker' = [chunker EXCEPT !.closed = TRUE]
    /\ gor' = [gor EXCEPT !.main.pc = "done"]
    /\ UNCHANGED <<proc, streamFrame>>

NextStreams ==
    \/ \E s \in Streams : StreamScan(s)
    \/ \E s \in Streams : AppendStore(s)
    \/ \E s \in Streams : SizeCheck(s)
    \/ \E s \in Streams : StreamEOF(s)
    \/ TickerFire
    \/ FinalFlush
    \/ \E g \in ChunkerGoroutines : FlushTake(g)
    \/ \E g \in ChunkerGoroutines : FlushIndex(g)
    \/ \E g \in ChunkerGoroutines : FlushSend(g)
    \/ FinalClose

SpecStreams == InitStreams /\ [][NextStreams]_vars

\* The chunks emitted so far: no consumer takes them in this specification.
Emitted == chunker.chunkChan
\* How often the byte b is in the data of the emitted chunks.
TimesEmitted(b) ==
    Cardinality({ij \in (1..Len(Emitted)) \X (1..MaxOutputLen + ChunkSize) :
                    /\ ij[2] <= Len(Emitted[ij[1]].data)
                    /\ Emitted[ij[1]].data[ij[2]] = b})
\* The bytes of the lines the readers have put into the buffers.
Appended(s) == proc.pos[s] - (IF gor[s].pc = "store" THEN 1 ELSE 0)
Buffered == UNION {{proc.out[s][i] : i \in 1..Appended(s)} : s \in Streams}
\* The readers are through, the ticker is between two flushes and FinalFlush
\* has returned.
ChunkerAtRest ==
    /\ gor.stdout.pc = "done" /\ gor.stderr.pc = "done"
    /\ gor.ticker.pc = "idle" /\ gor.main.pc = "done"

\* C25: chunk_index comes from one counter shared by stdout and stderr:
\* under any interleaving of the two stream readers, the interval ticker and
\* FinalFlush, no two emitted chunks carry the same chunk_index, no byte is
\* emitted in two chunks, and when all flushes are through every byte that was
\* buffered has been emitted.
ChunkIndexesUnique ==
    /\ \A i, j \in 1..Len(Emitted) :
          i # j => Emitted[i].chunk_index # Emitted[j].chunk_index
    /\ \A b \in Buffered : TimesEmitted(b) <= 1
    /\ ChunkerAtRest => \A b \in Buffered : TimesEmitted(b) = 1

\* C26: once a chunk with is_final true has been emitted for the command, no
\* further chunk is emitted for it: a final chunk is the last one emitted.
NothingAfterFinal ==
    \A i, j \in 1..Len(Emitted) : i < j => ~Emitted[i].is_final

\* ------------------------------------------ the dispatcher and the workers

\* RuntimeService.Start runs one dispatcher (the loop of Start) and the
\* workers; they share commandChan and the table node_commands_local.  Here
\* cmd_local is the table as the sequence of its rows in the order of
\* created_at, run holds commandChan and the command ids the workers have
\* begun (started) and begun more than once (again), and gor holds the
\* dispatcher and the workers.  Each statement on the local store and each
\* channel operation is a step.

\* CHANNEL_SIZE: the capacity of commandChan.
ChannelSize == 1
\* WORKER_COUNT workers.
Workers == {"w1"}
\* What a poll can answer: the commands of the response, in order.
PollBatches == {<<1>>, <<2>>, <<1, 2>>, <<2, 3>>}

LocalCommand(commandID, status) == [command_id |-> commandID, status |-> status]
HasLocal(rows, commandID) ==
    \E i \in 1..Len(rows) : rows[i].command_id = commandID
LocalStatus(rows, commandID) ==
    IF HasLocal(rows, commandID)
    THEN rows[CHOOSE i \in 1..Len(rows) : rows[i].command_id = commandID].status
    ELSE "none"

\* Store.IsCommandFinished: the command has a local row in a terminal status.
IsCommandFinished(rows, commandID) == LocalStatus(rows, commandID) \in Terminal
\* Store.SaveCommandWithStatus: a row with the status for a command_id the
\* table does not hold; a no-op for one it holds.
SaveCommandWithStatus(rows, commandID, status) ==
    IF HasLocal(rows, commandID) THEN rows
    ELSE Append(rows, LocalCommand(commandID, status))
\* Store.UpdateCommandStatus: UPDATE ... SET status = ? WHERE command_id = ?.
LocalUpdateCommandStatus(rows, commandID, status) ==
    [i \in 1..Len(rows) |->
        IF rows[i].command_id = commandID
        THEN [rows[i] EXCEPT !.status = status] ELSE rows[i]]
\* Store.GetNextQueuedCommand: WHERE status = 'queued' ORDER BY created_at
\* ASC LIMIT 1; 0 when there is no such row.
QueuedRows(rows) == {i \in 1..Len(rows) : rows[i].status = "queued"}
GetNextQueuedCommand(rows) ==
    IF QueuedRows(rows) = {} THEN 0
    ELSE rows[CHOOSE i \in QueuedRows(rows) :
                 \A j \in QueuedRows(rows) : i <= j].command_id

\* The dispatcher: where it is, the commands of the poll it has left, the
\* command it handles.  A worker: where it is and the command it executes.
Dispatcher(pc, batch, cmd) == [pc |-> pc, batch |-> batch, cmd |-> cmd]
Worker(pc, cmd) == [pc |-> pc, cmd |-> cmd]

dispatchFrame == <<node_commands, command_logs, reply, now, nodes, cmdSeq,
                   calls, dispatched, regVars, agentVars, net, proc, chunker,
                   logs_local>>

\* Start has started the workers and is about to call enqueueQueuedCommands;
\* the local table is empty.
InitDispatch ==
    /\ now = 0
    /\ nodes = {NodeRow("n1", "a0", 0, FALSE)}
    /\ node_commands = {}
    /\ cmdSeq = 0
    /\ command_logs = EmptyBag
    /\ calls = [t \in Callers |-> Idle]
    /\ reply = NoReply
    /\ requests = 0
    /\ dispatched = EmptyBag
    /\ registrations = 0
    /\ issued = <<>>
    /\ agent = NoAgent
    /\ hbSent = NoReply
    /\ net = [up |-> TRUE, outages |-> 0]
    /\ run = [ctx |-> "live", killed |-> FALSE, commandChan |-> <<>>,
              started |-> {}, again |-> {}]
    /\ proc = [state |-> "none"]
    /\ chunker = [currentChunkIndex |-> 0]
    /\ cmd_local = <<>>
    /\ logs_local = {}
    /\ gor = [dispatcher |-> Dispatcher("next", <<>>, 0)] @@
             [w \in Workers |-> Worker("recv", 0)]

\* The next command of the poll's answer, or enqueueQueuedCommands when the
\* answer is through.
NextOfBatch(batch) ==
    IF batch = <<>> THEN Dispatcher("next", <<>>, 0)
    ELSE Dispatcher("check", Tail(batch), Head(batch))

\* case <-ticker.C: requestCommands polls and gets the batch; an empty batch
\* is an empty answer or an error.
DispatchTick(batch) ==
    /\ gor.dispatcher.pc = "idle"
    /\ batch # <<>> => requests < MaxRequests
    /\ requests' = IF batch = <<>> THEN requests ELSE requests + 1
    /\ gor' = [gor EXCEPT !.dispatcher = NextOfBatch(batch)]
    /\ UNCHANGED <<dispatchFrame, run, cmd_local>>

\* requestCommands: IsCommandFinished; a finished command is skipped.
RequestCheck ==
    /\ gor.dispatcher.pc = "check"
    /\ gor' = [gor EXCEPT !.dispatcher =
                 IF IsCommandFinished(cmd_local, gor.dispatcher.cmd)
                 THEN NextOfBatch(gor.dispatcher.batch)
                 ELSE [gor.dispatcher EXCEPT !.pc = "save"]]
    /\ UNCHANGED <<dispatchFrame, requests, run, cmd_local>>

\* requestCommands: SaveCommandWithStatus(..., "running").
RequestSave ==
    /\ gor.dispatcher.pc = "save"
    /\ cmd_local' = SaveCommandWithStatus(cmd_local, gor.dispatcher.cmd, "running")
    /\ gor' = [gor EXCEPT !.dispatcher.pc = "send"]
    /\ UNCHANGED <<dispatchFrame, requests, run>>

\* requestCommands: select { case r.commandChan <- cmd: ... default: ... }.
RequestSend ==
    /\ gor.dispatcher.pc = "send"
    /\ IF Len(run.commandChan) < ChannelSize
       THEN /\ run' = [run EXCEPT !.commandChan = Append(@, gor.dispatcher.cmd)]
            /\ gor' = [gor EXCEPT !.dispatcher = NextOfBatch(gor.dispatcher.batch)]
       ELSE /\ run' = run
            /\ gor' = [gor EXCEPT !.dispatcher.pc = "requeue"]
    /\ UNCHANGED <<dispatchFrame, requests, cmd_local>>

\* requestCommands, default: UpdateCommandStatus(..., "queued"); the loop
\* goes on with the next command of the answer.
RequestRequeue ==
    /\ gor.dispatcher.pc = "requeue"
    /\ cmd_local' = LocalUpdateCommandStatus(cmd_local, gor.dispatcher.cmd, "queued")
    /\ gor' = [gor EXCEPT !.dispatcher = NextOfBatch(gor.dispatcher.batch)]
    /\ UNCHANGED <<dispatchFrame, requests, run>>

\* enqueueQueuedCommands: GetNextQueuedCommand; no row ends the pass.
EnqueueNext ==
    /\ gor.dispatcher.pc = "next"
    /\ gor' = [gor EXCEPT !.dispatcher =
                 IF GetNextQueuedCommand(cmd_local) = 0
                 THEN Dispatcher("idle", <<>>, 0)
                 ELSE Dispatcher("offer", <<>>, GetNextQueuedCommand(cmd_local))]
    /\ UNCHANGED <<dispatchFrame, requests, run, cmd_local>>

\* enqueueQueuedCommands: select { case r.commandChan <- cmd: default: ... };
\* after a send the loop reads the next queued command.
EnqueueOffer ==
    /\ gor.dispatcher.pc = "offer"
    /\ IF Len(run.commandChan) < ChannelSize
       THEN /\ run' = [run EXCEPT !.commandChan = Append(@, gor.dispatcher.cmd)]
            /\ gor' = [gor EXCEPT !.dispatcher = Dispatcher("next", <<>>, 0)]
       ELSE /\ run' = run
            /\ gor' = [gor EXCEPT !.dispatcher.pc = "putback"]
    /\ UNCHANGED <<dispatchFrame, requests, cmd_local>>

\* enqueueQueuedCommands, default: UpdateCommandStatus(..., "queued"); return.
EnqueuePutBack ==
    /\ gor.dispatcher.pc = "putback"
    /\ cmd_local' = LocalUpdateCommandStatus(cmd_local, gor.dispatcher.cmd, "queued")
    /\ gor' = [gor EXCEPT !.dispatcher = Dispatcher("idle", <<>>, 0)]
    /\ UNCHANGED <<dispatchFrame, requests, run>>

\* worker: for cmd := range r.commandChan.
WorkerTake(w) ==
    /\ gor[w].pc = "recv"
    /\ run.commandChan # <<>>
    /\ run' = [run EXCEPT
                 !.commandChan = Tail(@),
                 !.started = @ \cup {Head(run.commandChan)},
                 !.again = @ \cup ({Head(run.commandChan)} \cap run.started)]
    /\ gor' = [gor EXCEPT ![w] = Worker("exec", Head(run.commandChan))]
    /\ UNCHANGED <<dispatchFrame, requests, cmd_local>>

\* worker: executeCommand runs the command and ends with
\* storage.UpdateCommandStatus(..., status, ...).
WorkerFinish(w) ==
    /\ gor[w].pc = "exec"
    /\ \E status \in Terminal :
          cmd_local' = LocalUpdateCommandStatus(cmd_local, gor[w].cmd, status)
    /\ gor' = [gor EXCEPT ![w] = Worker("recv", 0)]
    /\ UNCHANGED <<dispatchFrame, requests, run>>

DispatcherSteps ==
    \/ RequestCheck
    \/ RequestSave
    \/ RequestSend
    \/ RequestRequeue
    \/ EnqueueNext
    \/ EnqueueOffer
    \/ EnqueuePutBack

NextDispatch ==
    \/ \E batch \in PollBatches \cup {<<>>} : DispatchTick(batch)
    \/ DispatcherSteps
    \/ \E w \in Workers : WorkerTake(w)
    \/ \E w \in Workers : WorkerFinish(w)

\* The ticker fires again and again, the dispatcher and the workers go on.
SpecDispatch ==
    /\ InitDispatch /\ [][NextDispatch]_vars
    /\ WF_vars(DispatchTick(<<>>))
    /\ WF_vars(DispatcherSteps)
    /\ \A w \in Workers : WF_vars(WorkerTake(w)) /\ WF_vars(WorkerFinish(w))

\* The copies of a command that wait on the channel, and the workers that
\* execute it.
Waiting(commandID) ==
    {i \in 1..Len(run.commandChan) : run.commandChan[i] = commandID}
Running(commandID) ==
    {w \in Workers : gor[w].pc = "exec" /\ gor[w].cmd = commandID}

\* The command ids of PollBatches.
DispatchCommands == {1, 2, 3}

\* The dispatcher comes back to the ticker from every pass.
PassEnds == []<>(gor.dispatcher.pc = "idle")
\* A send that finds the channel full leaves the channel as it is, and the
\* statement after it leaves the command in local status queued.
PutBackQueued ==
    [][/\ (RequestSend \/ EnqueueOffer) /\ Len(run.commandChan) >= ChannelSize
          => run'.commandChan = run.commandChan
       /\ (RequestRequeue \/ EnqueuePutBack)
          => LocalStatus(cmd_local', gor.dispatcher.cmd) = "queued"]_vars
\* A command in local status queued is taken by a worker.
QueuedTaken ==
    \A c \in DispatchCommands :
        (LocalStatus(cmd_local, c) = "queued") ~> (Running(c) # {})

\* C27: when the worker channel is full the dispatcher does not block: the
\* send leaves the channel as it is, the command is left in local status
\* queued, the pass comes to its end, and the command is offered again on a
\* later tick, so that a worker takes it.
FullChannelRetried == PassEnds /\ PutBackQueued /\ QueuedTaken

\* C28: the agent executes each command_id at most once: no worker begins a
\* command a worker has begun before, and a command is never on the worker
\* channel twice, nor on it while a worker executes it or has executed it.
ExecutedAtMostOnce ==
    /\ run.again = {}
    /\ \A c \in DispatchCommands :
          Waiting(c) # {} =>
             /\ Cardinality(Waiting(c)) = 1
             /\ Running(c) = {}
             /\ c \notin run.started

\* --------------------------------------------- the status of an execution

\* executeRunCommand from the payload to the status it stores and posts.
\* Here proc is the child with the way it ended (code: the exit code it gave
\* itself; killed: the deadline of execCtx killed it), run is execCtx with its
\* deadline, gor.main is the worker with its locals status, exitCode and
\* errorMsg and the request it posts, cmd_local is the status of the local
\* row.  The wall clock ticks in seconds up to MaxExecTime.

MaxExecTime == 3
\* timeoutSec when timeout_sec is absent or not positive.
DefaultTimeout == 300
\* payload["timeout_sec"]: absent (Nil), or the number.
TimeoutInputs == {Nil, {0}, {-1}, {1}, {2}}
\* The exit codes a child gives itself.
ExitCodes == {0, 1, 2}

timeoutSec(ts) ==
    IF ts # Nil /\ (CHOOSE v \in ts : TRUE) > 0
    THEN CHOOSE v \in ts : TRUE ELSE DefaultTimeout

Executor(pc) ==
    [pc |-> pc, req |-> NoReq, status |-> "", exitCode |-> 0, errorMsg |-> ""]

execFrame == <<node_commands, command_logs, reply, nodes, cmdSeq, calls,
               requests, dispatched, regVars, agentVars, net, chunker,
               logs_local>>

\* A worker has taken the command (local status running) and calls
\* executeRunCommand.
InitExec ==
    /\ now = 0
    /\ nodes = {NodeRow("n1", "a0", 0, FALSE)}
    /\ node_commands = {}
    /\ cmdSeq = 0
    /\ command_logs = EmptyBag
    /\ calls = [t \in Callers |-> Idle]
    /\ reply = NoReply
    /\ requests = 0
    /\ dispatched = EmptyBag
    /\ registrations = 0
    /\ issued = <<>>
    /\ agent = NoAgent
    /\ hbSent = NoReply
    /\ net = [up |-> TRUE, outages |-> 0]
    /\ run = [ctx |-> "none", deadline |-> 0]
    /\ proc = [state |-> "none", code |-> 0, killed |-> FALSE]
    /\ chunker = [currentChunkIndex |-> 0]
    /\ cmd_local = "running"
    /\ logs_local = {}
    /\ gor = [main |-> Executor("start")]

\* context.WithTimeout(ctx, timeoutSec seconds) and command.Start.
RunStart(ts) ==
    /\ gor.main.pc = "start"
    /\ run' = [ctx |-> "live", deadline |-> now + timeoutSec(ts)]
    /\ proc' = [proc EXCEPT !.state = "running"]
    /\ gor' = [gor EXCEPT !.main.pc = "wait"]
    /\ UNCHANGED <<execFrame, now, cmd_local>>

\* A second passes.  When the deadline of execCtx is reached the context is
\* done with DeadlineExceeded and exec.CommandContext kills a child that is
\* still running.
RunTick ==
    /\ now < MaxExecTime
    /\ now' = now + 1
    /\ IF run.ctx = "live" /\ now + 1 >= run.deadline
       THEN /\ run' = [run EXCEPT !.ctx = "deadline"]
            /\ proc' = IF proc.state = "running"
                       THEN [state |-> "exited", code |-> -1, killed |-> TRUE]
                       ELSE proc
       ELSE UNCHANGED <<run, proc>>
    /\ UNCHANGED <<execFrame, cmd_local, gor>>

\* The child exits by itself.
ChildExit(code) ==
    /\ proc.state = "running"
    /\ proc' = [state |-> "exited", code |-> code, killed |-> FALSE]
    /\ UNCHANGED <<execFrame, now, run, cmd_local, gor>>

\* err = command.Wait(): the child has ended.
RunWait ==
    /\ gor.main.pc = "wait"
    /\ proc.state = "exited"
    /\ gor' = [gor EXCEPT !.main.pc = "flush"]
    /\ UNCHANGED <<execFrame, now, run, proc, cmd_local>>

\* chunker.FinalFlush(), which sends on chunkChan.
RunFlush ==
    /\ gor.main.pc = "flush"
    /\ gor' = [gor EXCEPT !.main.pc = "decide"]
    /\ UNCHANGED <<execFrame, now, run, proc, cmd_local>>

\* status, exitCode and errorMsg from err and execCtx.Err(); err is nil for a
\* child that exited with 0, an ExitError otherwise.
Decide(p, ctx) ==
    IF p.killed \/ p.code # 0
    THEN IF ctx = "deadline"
         THEN [status |-> "timeout", exitCode |-> -1,
               errorMsg |-> "command execution timed out"]
         ELSE [status |-> "failed", exitCode |-> p.code,
               errorMsg |-> "command exited with code"]
    ELSE [status |-> "success", exitCode |-> 0, errorMsg |-> ""]

RunDecide ==
    /\ gor.main.pc = "decide"
    /\ gor' = [gor EXCEPT
                 !.main.pc = "store",
                 !.main.status = Decide(proc, run.ctx).status,
                 !.main.exitCode = Decide(proc, run.ctx).exitCode,
                 !.main.errorMsg = Decide(proc, run.ctx).errorMsg]
    /\ UNCHANGED <<execFrame, now, run, proc, cmd_local>>

\* storage.UpdateCommandStatus(ctx, commandID, status, ...).
RunStore ==
    /\ gor.main.pc = "store"
    /\ cmd_local' = gor.main.status
    /\ gor' = [gor EXCEPT !.main.pc = "post"]
    /\ UNCHANGED <<execFrame, now, run, proc>>

\* agentClient.UpdateCommandStatus(ctx, commandID, status, ...).
RunPost ==
    /\ gor.main.pc = "post"
    /\ gor' = [gor EXCEPT
                 !.main.pc = "done",
                 !.main.req = StatusReq(gor.main.status, gor.main.exitCode,
                                        gor.main.errorMsg)]
    /\ UNCHANGED <<execFrame, now, run, proc, cmd_local>>

NextExec ==
    \/ \E ts \in TimeoutInputs : RunStart(ts)
    \/ RunTick
    \/ \E code \in ExitCodes : ChildExit(code)
    \/ RunWait
    \/ RunFlush
    \/ RunDecide
    \/ RunStore
    \/ RunPost

SpecExec == InitExec /\ [][NextExec]_vars

\* executeRunCommand has set status and exitCode.
Decided == gor.main.pc \in {"store", "post", "done"}

\* C29: executeRunCommand reports timeout with exit code -1 exactly when the
\* deadline of the command was exceeded (the deadline ended the child), failed
\* with the child's exit code when the child exited non-zero by itself, and
\* success otherwise; the status it stores locally and the status it posts
\* are that status.
StatusAsStated ==
    /\ Decided =>
          /\ (gor.main.status = "timeout") <=> proc.killed
          /\ gor.main.status = "timeout" => gor.main.exitCode = -1
          /\ (~proc.killed /\ proc.code # 0) =>
                gor.main.status = "failed" /\ gor.main.exitCode = proc.code
          /\ (~proc.killed /\ proc.code = 0) => gor.main.status = "success"
    /\ gor.main.pc \in {"post", "done"} => cmd_local = gor.main.status
    /\ gor.main.pc = "done" => gor.main.req.status = cmd_local

\* ------------------------------------------------------- the local cleanup

\* startCleanupJob and the two DELETE statements it runs.  Here now and
\* created_at are in minutes, cmd_local is the set of the rows of
\* node_commands_local, logs_local the set of the rows of command_logs_local,
\* and gor.cleanup is the goroutine of startCleanupJob.

\* The arguments startCleanupJob passes.
AckedMinutes == 15
CompletedHours == 24
\* The minutes of the hour of the datetime modifier '+N hours'.
MinutesPerHour == 60

\* The times the clock shows, in minutes.
CleanupTimes == {0, 15, 16, 1440, 1441}
\* What the local tables can hold: a command of each status and chunks of
\* each status, old ones (created at 0) and one of each table created late.
CleanupCommands ==
    {[command_id |-> 1, status |-> "queued", created_at |-> 0],
     [command_id |-> 2, status |-> "running", created_at |-> 0],
     [command_id |-> 3, status |-> "success", created_at |-> 0],
     [command_id |-> 4, status |-> "failed", created_at |-> 0],
     [command_id |-> 5, status |-> "timeout", created_at |-> 0],
     [command_id |-> 6, status |-> "success", created_at |-> 16]}
CleanupChunks ==
    {[command_id |-> 3, chunk_index |-> 0, status |-> "acked", created_at |-> 0],
     [command_id |-> 3, chunk_index |-> 1, status |-> "pending", created_at |-> 0],
     [command_id |-> 6, chunk_index |-> 0, status |-> "acked", created_at |-> 16]}

\* Store.CleanupAckedChunks: DELETE ... WHERE status = 'acked' AND
\* datetime(created_at, '+N minutes') < datetime('now').
CleanupAckedChunks(rows, olderThanMinutes, t) ==
    {x \in rows : ~(x.status = "acked" /\ x.created_at + olderThanMinutes < t)}
\* Store.CleanupCompletedCommands: DELETE ... WHERE status IN ('success',
\* 'failed') AND datetime(created_at, '+N hours') < datetime('now').
CleanupCompletedCommands(rows, olderThanHours, t) ==
    {c \in rows :
        ~(/\ c.status \in {"success", "failed"}
          /\ c.created_at + olderThanHours * MinutesPerHour < t)}

cleanupFrame == <<node_commands, command_logs, reply, nodes, cmdSeq, calls,
                  requests, dispatched, regVars, agentVars, net, run, proc,
                  chunker>>

\* The agent runs with some rows in its tables; the cleanup job waits for
\* its ticker.
InitCleanup ==
    /\ now = 0
    /\ nodes = {NodeRow("n1", "a0", 0, FALSE)}
    /\ node_commands = {}
    /\ cmdSeq = 0
    /\ command_logs = EmptyBag
    /\ calls = [t \in Callers |-> Idle]
    /\ reply = NoReply
    /\ requests = 0
    /\ dispatched = EmptyBag
    /\ registrations = 0
    /\ issued = <<>>
    /\ agent = NoAgent
    /\ hbSent = NoReply
    /\ net = [up |-> TRUE, outages |-> 0]
    /\ run = [ctx |-> "live", killed |-> FALSE]
    /\ proc = [state |-> "none"]
    /\ chunker = [currentChunkIndex |-> 0]
    /\ cmd_local \in SUBSET CleanupCommands
    /\ logs_local \in SUBSET CleanupChunks
    /\ gor = [cleanup |-> [pc |-> "idle"]]

\* Time passes, to the next of the times.
Elapse(t) ==
    /\ gor.cleanup.pc = "idle"
    /\ now < t
    /\ \A u \in CleanupTimes : u > now => t <= u
    /\ now' = t
    /\ UNCHANGED <<cleanupFrame, cmd_local, logs_local, gor>>

\* case <-ticker.C.
CleanupFire ==
    /\ gor.cleanup.pc = "idle"
    /\ gor' = [gor EXCEPT !.cleanup.pc = "chunks"]
    /\ UNCHANGED <<cleanupFrame, now, cmd_local, logs_local>>

\* store.CleanupAckedChunks(ctx, 15).
CleanupChunksStep ==
    /\ gor.cleanup.pc = "chunks"
    /\ logs_local' = CleanupAckedChunks(logs_local, AckedMinutes, now)
    /\ gor' = [gor EXCEPT !.cleanup.pc = "commands"]
    /\ UNCHANGED <<cleanupFrame, now, cmd_local>>

\* store.CleanupCompletedCommands(ctx, 24).
CleanupCommandsStep ==
    /\ gor.cleanup.pc = "commands"
    /\ cmd_local' = CleanupCompletedCommands(cmd_local, CompletedHours, now)
    /\ gor' = [gor EXCEPT !.cleanup.pc = "idle"]
    /\ UNCHANGED <<cleanupFrame, now, logs_local>>

NextCleanup ==
    \/ \E t \in CleanupTimes : Elapse(t)
    \/ CleanupFire
    \/ CleanupChunksStep
    \/ CleanupCommandsStep

SpecCleanup == InitCleanup /\ [][NextCleanup]_vars

\* C30: a run of the cleanup removes every local command in a terminal
\* status (success, failed, timeout) created more than 24 hours ago and every
\* acked chunk created more than 15 minutes ago, and nothing else: no pending
\* chunk, no queued or running command, no younger row.
CleanupRemovesExactly ==
    [][/\ CleanupCommandsStep =>
            cmd_local' =
               {c \in cmd_local :
                   ~(/\ c.status \in Terminal
                     /\ now - c.created_at > CompletedHours * MinutesPerHour)}
       /\ CleanupChunksStep =>
            logs_local' =
               {x \in logs_local :
                   ~(x.status = "acked" /\ now - x.created_at > AckedMinutes)}
       /\ ~CleanupCommandsStep => cmd_local' = cmd_local
       /\ ~CleanupChunksStep => logs_local' = logs_local]_vars

\* ------------------------------------------------- shutdown while executing

\* run() waits for SIGINT or SIGTERM and returns: its deferred cancel ends
\* the top-level context, then the process ends.  execCtx is a child of that
\* context, and exec.CommandContext kills the child process when execCtx is
\* done; whether that happens before the process has ended is open.

\* The signal arrives: cancel() ends ctx and with it execCtx.
Shutdown ==
    /\ run.ctx = "live"
    /\ gor.main.pc # "dead"
    /\ run' = [run EXCEPT !.ctx = "canceled"]
    /\ UNCHANGED <<execFrame, now, proc, cmd_local, gor>>

\* exec.CommandContext: execCtx is done, the child is killed; its ExitError
\* reports exit code -1.
CancelKill ==
    /\ run.ctx = "canceled"
    /\ gor.main.pc # "dead"
    /\ proc.state = "running"
    /\ proc' = [state |-> "exited", code |-> -1, killed |-> FALSE]
    /\ UNCHANGED <<execFrame, now, run, cmd_local, gor>>

\* run() has returned: the process ends with its goroutines; a child that
\* still runs goes on by itself.
AgentExit ==
    /\ run.ctx = "canceled"
    /\ gor.main.pc # "dead"
    /\ gor' = [gor EXCEPT !.main.pc = "dead"]
    /\ UNCHANGED <<execFrame, now, run, proc, cmd_local>>

NextShutdown ==
    \/ \E ts \in TimeoutInputs : RunStart(ts)
    \/ RunTick
    \/ \E code \in ExitCodes : ChildExit(code)
    \/ RunWait
    \/ RunFlush
    \/ RunDecide
    \/ RunStore
    \/ RunPost
    \/ Shutdown
    \/ CancelKill
    \/ AgentExit

SpecShutdown == InitExec /\ [][NextShutdown]_vars

\* C31: after the top-level context is cancelled the worker does not kill the
\* child it executes: a running child ends only by its own exit (or by its
\* own deadline), and the status the worker sets for the command is the one
\* that exit gave: failed with the child's code, or success.
NoKillOnShutdown ==
    /\ run.ctx = "canceled" /\ proc.state = "exited" =>
          proc.killed \/ proc.code \in ExitCodes
    /\ run.ctx = "canceled" /\ Decided /\ ~proc.killed =>
          /\ gor.main.exitCode = proc.code
          /\ proc.code \in ExitCodes
          /\ gor.main.status = IF proc.code = 0 THEN "success" ELSE "failed"

\* C32: when the ticker of the retry service uploads the pending chunks of a
\* command whose local status is terminal, every chunk of the batch it sends
\* has is_final true.
DrainOfFinishedIsFinal ==
    [][(UploadBegin("retry") /\ cmd_local \in Terminal)
       => \A i \in 1..Len(gor'.retry.batch) : gor'.retry.batch[i].is_final]_vars

\* ------------------------------------------------- pushes of whole batches

\* push_logs with arrays of one and of two chunks, next to delete_queued.
PushA0 == [chunk_index |-> 0, stream |-> "stdout", data |-> "A", is_final |-> FALSE]
PushB0 == [chunk_index |-> 0, stream |-> "stdout", data |-> "B", is_final |-> TRUE]
PushA1 == [chunk_index |-> 1, stream |-> "stdout", data |-> "A", is_final |-> FALSE]
PushBatches ==
    { <<PushA0>>, <<PushB0>>, <<PushA0, PushA1>>, <<PushA1, PushB0>>,
      <<PushA0, [PushA1 EXCEPT !.stream = "stdin"]>>,
      <<PushA0, [PushA1 EXCEPT !.chunk_index = -1]>>,
      <<PushA0, [PushA1 EXCEPT !.data = ""]>>,
      <<[PushA0 EXCEPT !.stream = "stderr"]>> }

NextPush ==
    \/ \E t \in Callers, n \in PollingNodes, c \in CommandIdInputs,
          b \in PushBatches : PushBegin(t, n, c, b)
    \/ \E t \in Callers : PushInsert(t)
    \/ \E t \in Callers, n \in PollingNodes \cup {Null} : DeleteBegin(t, n)
    \/ \E t \in Callers : DeleteCommands(t)

SpecPush == InitLogs /\ [][NextPush]_vars

\* The chunk indexes of a chunks array.
IndexesOf(chunks) == {chunks[i].chunk_index : i \in 1..Len(chunks)}

\* C33: the acked_offsets of a successful push_logs call hold the chunk_index
\* of every chunk of the call whose row the call inserted or whose is_final
\* it updated, and no index the call did not carry.
AckedWhatWasStored ==
    [][\A t \in Callers :
          (reply'.op = "push" /\ reply'.code = 201 /\ PushInsert(t))
          => /\ \A i \in 1..Len(calls[t].chunks) :
                   (\E x \in BagToSet(command_logs') :
                       LogKey(x) = <<calls[t].command_id,
                                     calls[t].chunks[i].chunk_index,
                                     calls[t].chunks[i].stream>>)
                   => calls[t].chunks[i].chunk_index \in Range(reply'.acked)
             /\ Range(reply'.acked) \subseteq IndexesOf(calls[t].chunks)]_vars

\* A call of two chunks has been answered with both indexes, and both rows
\* are stored.
AckedWhatWasStoredWitness ==
    /\ reply = PushReply(201, "", <<0, 1>>)
    /\ \E x \in BagToSet(command_logs) : LogKey(x) = <<1, 0, "stdout">>
    /\ \E x \in BagToSet(command_logs) : LogKey(x) = <<1, 1, "stdout">>

\* C34: push_logs validates every chunk of the call before it stores any: a
\* call with a chunk whose stream is neither stdout nor stderr, whose
\* chunk_index is below 0 or whose data is empty is rejected as a whole and
\* stores nothing; a call of the command's node whose chunks are all valid,
\* chunk_index 0 included, goes on to store them.
BatchValidatedFirst ==
    [][\/ requests' = requests
       \/ \A t \in Callers, n \in PollingNodes, c \in CommandIdInputs,
             b \in PushBatches :
             PushBegin(t, n, c, b) =>
                IF \E i \in 1..Len(b) :
                      \/ b[i].stream \notin {"stdout", "stderr"}
                      \/ b[i].chunk_index < 0
                      \/ b[i].data = ""
                THEN /\ reply'.op = "push" /\ reply'.code = 400
                     /\ calls' = calls
                     /\ command_logs' = command_logs
                ELSE (GetCommandByID(c) # NoRow /\ GetCommandByID(c).node_id = n)
                     => /\ calls'[t].op = "push" /\ calls'[t].pc = "insert"
                        /\ Len(calls'[t].chunks) = Len(b)]_vars

\* A call whose second chunk has chunk_index -1 was rejected and its first
\* chunk is not stored; a call with chunk_index 0 has been stored.
BatchValidatedFirstWitness ==
    /\ reply = PushReply(400, "invalid chunk", <<>>)
    /\ requests = 2
    /\ \E x \in BagToSet(command_logs) :
          LogKey(x) = <<1, 0, "stderr">> /\ x.data = "A"
    /\ ~\E x \in BagToSet(command_logs) : LogKey(x) = <<1, 0, "stdout">>

\* C35: the data of a stored row never changes: a row that is there before
\* and after a step has the same data, whatever a later push_logs with the
\* same (command_id, chunk_index, stream) carries.
StoredDataKept ==
    [][\A x \in BagToSet(command_logs), y \in BagToSet(command_logs') :
          LogKey(x) = LogKey(y) => y.data = x.data]_vars

\* Chunk 0 of stdout was stored with data A, a second call with data B for
\* the same key has been answered 201, and the row still holds A.
StoredDataKeptWitness ==
    /\ reply = PushReply(201, "", <<1, 0>>)
    /\ requests = 2
    /\ \E x \in BagToSet(command_logs) :
          LogKey(x) = <<1, 0, "stdout">> /\ x.data = "A" /\ x.is_final

\* ------------------------------------------- acks of chunks of two streams

\* The goroutine of executeRunCommand that consumes chunkChan, with chunks
\* of stdout and of stderr on the channel.  Each chunker run of EmittedRuns
\* is one the chunker can produce: stdout then stderr with the indexes 0 and
\* 1, and, from two flushes that read currentChunkIndex together, both with
\* the index 0.
EmittedRuns ==
    { <<Chunk(0, "stdout", "a\n", FALSE), Chunk(1, "stderr", "b\n", TRUE)>>,
      <<Chunk(0, "stdout", "a\n", TRUE), Chunk(0, "stderr", "b\n", TRUE)>>,
      <<Chunk(0, "stderr", "b\n", TRUE), Chunk(0, "stdout", "a\n", TRUE)>> }

\* The child has exited, FinalFlush has closed chunkChan; the consumer has
\* taken no chunk yet.
InitAcks ==
    /\ now = 0
    /\ nodes = {NodeRow("n1", "a0", 0, FALSE)}
    /\ node_commands =
          {[id |-> 1, command_id |-> WorkerCommand, node_id |-> WorkerNode,
            command_type |-> "RunCommand", payload |-> RunEcho,
            status |-> "running", created_at |-> 0, updated_at |-> 0,
            exit_code |-> Nil, error_msg |-> Null]}
    /\ cmdSeq = 1
    /\ command_logs = EmptyBag
    /\ calls = [t \in Callers |-> Idle]
    /\ reply = NoReply
    /\ requests = 0
    /\ dispatched = SetToBag({WorkerCommand})
    /\ registrations = 0
    /\ issued = <<>>
    /\ agent = NoAgent
    /\ hbSent = NoReply
    /\ net \in {[up |-> b, outages |-> 0] : b \in BOOLEAN}
    /\ run = [ctx |-> "live", killed |-> FALSE]
    /\ proc = [state |-> "exited", out |-> <<>>, pos |-> 0]
    /\ \E emitted \in EmittedRuns :
          chunker = [currentChunkIndex |-> Len(emitted), stdoutBuffer |-> "",
                     chunkChan |-> emitted, closed |-> TRUE]
    /\ cmd_local = "running"
    /\ logs_local = {}
    /\ gor = [main |-> Goroutine("upload"), reader |-> Goroutine("done"),
              consumer |-> Goroutine("recv"), retry |-> Goroutine("idle")]

NextAcks ==
    \/ ConsumerRecv
    \/ ConsumerSave
    \/ ConsumerPush
    \/ ConsumerAck
    \/ ServePushBegin("consumer")
    \/ ServePushInsert("consumer")
    \/ GoDown
    \/ ComeUp

SpecAcks == InitAcks /\ [][NextAcks]_vars

LocalKey(r) == <<r.command_id, r.chunk_index, r.stream>>

\* C36: a local chunk is acked only if the control service holds a chunk
\* with the same (command_id, chunk_index, stream), which it acknowledged;
\* and a local chunk that is acked stays acked.
AckedOnlyIfStored ==
    /\ [](\A r \in logs_local :
             r.status = "acked"
             => \E x \in BagToSet(command_logs) : LogKey(x) = LocalKey(r))
    /\ [][\A r \in logs_local :
             r.status = "acked"
             => \E q \in logs_local' :
                   LocalKey(q) = LocalKey(r) /\ q.status = "acked"]_vars

\* ------------------------------------------------- purges between leases

\* Submissions, polls and delete_queued calls, each statement of a store
\* method a step of its own.
NextPurge ==
    \/ \E r \in SubmitRequests :
          SubmitCommand(r.command_type, r.node_id, r.payload)
    \/ \E t \in Callers, n \in PollingNodes : NextBegin(t, n)
    \/ \E t \in Callers : NextSelect(t)
    \/ \E t \in Callers : NextUpdate(t)
    \/ \E t \in Callers : NextRespond(t)
    \/ \E t \in Callers : NextTimeout(t)
    \/ \E t \in Callers, n \in PollingNodes \cup {Null} : DeleteBegin(t, n)
    \/ \E t \in Callers : DeleteCommands(t)

SpecPurge == Init /\ [][NextPurge]_vars

RunningIds == {c.command_id : c \in {d \in node_commands : d.status = "running"}}

\* C37: whatever the interleaving of delete_queued with next, every command
\* a next call returns is a row of node_commands with status running when
\* the call returns, and no command a next call has returned is purged.
DispatchedNeverPurged ==
    /\ \A c \in BagToSet(dispatched) : c \in RunningIds
    /\ \A t \in Callers :
          (calls[t].op = "next" /\ calls[t].pc = "respond")
          => SeqIds(calls[t].commands) \subseteq RunningIds

\* A delete_queued has purged the commands a poll selected, between the
\* poll's SELECT and its UPDATE, and another command has been returned.
DispatchedNeverPurgedWitness ==
    /\ dispatched # EmptyBag
    /\ \E t \in Callers :
          /\ calls[t].op = "next" /\ calls[t].pc = "update"
          /\ \A c \in node_commands : c.command_id \notin SeqIds(calls[t].commands)

\* ------------------------------------------------ the console's log reader

\* ConsoleView of the frontend reading the logs of the running command 1
\* while its agent pushes them.  gor.console is the component's state:
\* lastChunkIndexRef, shouldPollRef, the logs shown, and whether the initial
\* load is through.  The command stays running, so the component's checks of
\* commandStatus never stop the polling.
ConsoleCommand == 1
Console(lastChunkIndex, shouldPoll, logs, loaded) ==
    [lastChunkIndex |-> lastChunkIndex, shouldPoll |-> shouldPoll,
     logs |-> logs, loaded |-> loaded]

\* The batches the agent of n1 sends for the command: each chunk by itself
\* from the goroutine that consumes chunkChan (with the chunk's own is_final),
\* and the pending chunks from UploadChunksForCommand(commandID, true), every
\* chunk final.
Read0 == [chunk_index |-> 0, stream |-> "stdout", data |-> "a", is_final |-> FALSE]
Read1 == [chunk_index |-> 1, stream |-> "stdout", data |-> "b", is_final |-> TRUE]
ReaderBatches ==
    { <<Read0>>, <<Read1>>, <<[Read0 EXCEPT !.is_final = TRUE]>>,
      <<[Read0 EXCEPT !.is_final = TRUE], Read1>> }

InitReader ==
    /\ now = 0
    /\ nodes = {NodeRow("n1", "a0", 0, FALSE)}
    /\ node_commands =
          {[id |-> 1, command_id |-> ConsoleCommand, node_id |-> "n1",
            command_type |-> "RunCommand", payload |-> RunEcho,
            status |-> "running", created_at |-> 0, updated_at |-> 0,
            exit_code |-> Nil, error_msg |-> Null]}
    /\ cmdSeq = 1
    /\ command_logs = EmptyBag
    /\ calls = [t \in Callers |-> Idle]
    /\ reply = NoReply
    /\ requests = 0
    /\ dispatched = SetToBag({ConsoleCommand})
    /\ registrations = 0
    /\ issued = <<>>
    /\ agent = NoAgent
    /\ hbSent = NoReply
    /\ net = [up |-> TRUE, outages |-> 0]
    /\ run = [ctx |-> "none", killed |-> FALSE]
    /\ proc = [state |-> "none", out |-> <<>>, pos |-> 0]
    /\ chunker = [currentChunkIndex |-> 0, stdoutBuffer |-> "",
                  chunkChan |-> <<>>, closed |-> FALSE]
    /\ cmd_local = "none"
    /\ logs_local = {}
    /\ gor = [console |-> Console(-1, TRUE, {}, FALSE)]

\* logs.some(log => log.is_final === true)
HasFinal(l) == \E i \in 1..Len(l) : l[i].is_final

\* Math.max over the chunk indexes of a response that is not empty.
MaxIndex(l) ==
    CHOOSE m \in {l[i].chunk_index : i \in 1..Len(l)} :
        \A i \in 1..Len(l) : l[i].chunk_index <= m

\* The Map keyed by `${chunk_index}-${stream}`: a new log replaces the one
\* with its key.
MergeLogs(prev, l) ==
    LET new == {l[i] : i \in 1..Len(l)}
    IN  {p \in prev : \A n \in new :
            ~(n.chunk_index = p.chunk_index /\ n.stream = p.stream)} \cup new

\* loadInitialLogs: the logs of the command without after_chunk_index.
ConsoleLoad ==
    /\ ~gor.console.loaded
    /\ \E l \in GetCommandLogs(ConsoleCommand, Nil) :
          gor' = [gor EXCEPT !.console =
             IF Len(l) = 0 THEN [@ EXCEPT !.loaded = TRUE]
             ELSE Console(MaxIndex(l),
                          IF HasFinal(l) THEN FALSE ELSE @.shouldPoll,
                          {l[i] : i \in 1..Len(l)}, TRUE)]
    /\ UNCHANGED <<now, nodes, node_commands, cmdSeq, command_logs, calls,
                   reply, requests, dispatched, regVars, agentVars, net, run,
                   proc, chunker, cmd_local, logs_local>>

\* fetchLogs, on every tick of the polling interval while shouldPollRef is
\* set: after_chunk_index is lastChunkIndexRef once it is not negative.
ConsoleFetch ==
    /\ gor.console.shouldPoll
    /\ LET currentIndex == gor.console.lastChunkIndex
           after == IF currentIndex >= 0 THEN {currentIndex} ELSE Nil
       IN  \E l \in GetCommandLogs(ConsoleCommand, after) :
             /\ Len(l) > 0
             /\ gor' = [gor EXCEPT !.console =
                   Console(IF MaxIndex(l) > currentIndex
                              THEN MaxIndex(l) ELSE currentIndex,
                           ~HasFinal(l), MergeLogs(@.logs, l), @.loaded)]
    /\ UNCHANGED <<now, nodes, node_commands, cmdSeq, command_logs, calls,
                   reply, requests, dispatched, regVars, agentVars, net, run,
                   proc, chunker, cmd_local, logs_local>>

NextReader ==
    \/ \E t \in Callers, b \in ReaderBatches :
          PushBegin(t, "n1", ConsoleCommand, b)
    \/ \E t \in Callers : PushInsert(t)
    \/ ConsoleLoad
    \/ ConsoleFetch

SpecReader == InitReader /\ [][NextReader]_vars

\* C38: once the reader has stopped on a row with is_final, it holds every
\* chunk that is stored for the command, now and ever after: also when the
\* chunks reach the service out of chunk_index order.
ReaderHasEveryChunk ==
    ~gor.console.shouldPoll
    => \A x \in BagToSet(command_logs) :
          x.command_id = ConsoleCommand
          => \E l \in gor.console.logs :
                l.chunk_index = x.chunk_index /\ l.stream = x.stream

\* ------------------------------------------------- sends after the close

\* C39: the chunker never sends on chunkChan after FinalFlush has closed
\* it: whatever the interleaving of the stream readers' flush at the end of
\* their stream, the ticker's flush and FinalFlush, no flush reaches its send
\* with the channel closed.
NoSendAfterClose ==
    [][\A g \in ChunkerGoroutines : ~(chunker.closed /\ FlushSend(g))]_vars

\* --------------------------------------------------- leases, in the end

\* Submissions for n1 and n2, polls and delete_queued calls, with the
\* scheduling of the service and of the agents.  A handler is a goroutine that runs while it can: the UPDATE and
\* the response of a poll and the second statement of delete_queued follow.
\* The agent of each node keeps calling next (PollCommands in the loop of
\* RuntimeService.Start), with wait=5: the ticker of the handler fires after
\* one second, before the deadline, so a poll comes to run its SELECT, and
\* a poll that finds nothing ends at its deadline.
NextLease ==
    \/ \E r \in {q \in SubmitRequests : q.node_id \in PollingNodes} :
          SubmitCommand(r.command_type, r.node_id, r.payload)
    \/ \E t \in Callers, n \in PollingNodes : NextBegin(t, n)
    \/ \E t \in Callers : NextSelect(t)
    \/ \E t \in Callers : NextUpdate(t)
    \/ \E t \in Callers : NextRespond(t)
    \/ \E t \in Callers : NextTimeout(t)
    \/ \E t \in Callers : DeleteBegin(t, Null)
    \/ \E t \in Callers : DeleteCommands(t)

SpecLease ==
    /\ Init /\ [][NextLease]_vars
    /\ \A t \in Callers :
          /\ WF_vars(NextUpdate(t))
          /\ WF_vars(NextRespond(t))
          /\ WF_vars(DeleteCommands(t))
          /\ WF_vars(NextTimeout(t))
          /\ SF_vars(NextSelect(t) /\ calls'[t].pc = "update")
    /\ \A n \in PollingNodes : SF_vars(\E t \in Callers : NextBegin(t, n))

Stored(commandID) == \E c \in node_commands : c.command_id = commandID

====
